---- MODULE Spec2Model ----
(***************************************************************************)
(* The Intcode virtual machine of intcode/src/lib.rs: struct Program, its  *)
(* decoder (Instruction::parse), its executor (Program::step) and the      *)
(* public driving API (read_input, run, await_output, is_terminated).      *)
(*                                                                         *)
(* Conventions                                                             *)
(*  - Vec<i64> / VecDeque<i64> are sequences; cell a of the memory is      *)
(*    memory[a + 1].                                                       *)
(*  - Option<T> is a sequence of length at most one: None is << >> and     *)
(*    Some(x) is <<x>>.                                                    *)
(*  - A usize obtained by `x as usize` is kept as the signed 64-bit        *)
(*    integer with the same bit pattern: a negative number n stands for    *)
(*    the index 2^64 + n, which is larger than any vector length.          *)
(*  - A Rust panic ends the thread that drives the machine; the model      *)
(*    records it as pc = "panicked" and nothing happens afterwards.        *)
(*  - i64 sums and products are exact: the programs and inputs below keep  *)
(*    every value far inside the signed 64-bit range.                      *)
(***************************************************************************)
EXTENDS Integers, Sequences, FiniteSets, TLC

VARIABLES
    prog,             \* the Program: memory, instruction_pointer, relative_base,
                      \*              return_code, input_buffer
    pc,               \* where the driving thread is: "idle", "run", "await_output", "panicked"
    last_output,      \* the local last_output of an await_output call in progress
    ev,               \* the operation that acted last and what it returned
    outputs,          \* history: the values on_output was called with, in call order
    call_outputs,     \* history: how many of them since the call in progress (or last made) began
    appended,         \* history: every value pushed onto input_buffer, in push order
    consumed,         \* history: the value each executed Input instruction left in memory
    overflow_checks,  \* build profile: TRUE (debug) panics on integer overflow, FALSE (release) wraps
    heap,             \* the buffers allocated for the Vec and the VecDeque of the instances below
    vm,               \* the Program instances of a driver that clones: name -> struct Program,
                      \*     its memory and input_buffer fields owning a buffer of the heap
    driven,           \* history: per instance, its outputs and the State of its last step
    alone,            \* history: per instance, the Program, outputs and State it has when the
                      \*     calls made on it are made on an instance that is the only one
    feedback          \* the locals of day07's amp_stack_feeback: the template program, perm,
                      \*     the loop index i, last_output and the value returned

\* The instances of a driver that clones; a driver of one Program has none
clone_vars == <<heap, vm, driven, alone, feedback>>

vars == <<prog, pc, last_output, ev, outputs, call_outputs, appended, consumed, overflow_checks,
          heap, vm, driven, alone, feedback>>

----------------------------------------------------------------------------
(* Bounds of the model *)

MaxLen == 3           \* longest enumerated program
MaxInputs == 2        \* values pushed onto the input queue in one behaviour
MaxOutputs == 3       \* calls of on_output in one behaviour
MaxBase == 3          \* largest magnitude of the relative base a looping program is stepped at

None == << >>
Some(x) == <<x>>

----------------------------------------------------------------------------
(* Rust integer operators *)

\* i64 `/`: division truncating toward zero
TruncDiv(a, b) == IF a >= 0 THEN a \div b ELSE -((-a) \div b)

\* a remainder that keeps one decimal digit whatever the modulus
rem_one_digit(a, b) == a % 10

\* i64::rem_euclid with a positive modulus: the result is in 0 .. b-1
rem_euclid(a, b) == a % b

\* i64 values beyond the 32 bits of a TLC integer are kept as sign and
\* magnitude, the magnitude in base LimbBase with the least significant limb
\* first; a value of at most MaxNarrow in magnitude is kept as an integer, so
\* that every i64 the model holds has one representation.
LimbBase == 10000
MaxNarrow == 2147483647

Wide(neg, limbs) == [neg |-> neg, limbs |-> limbs]

\* The limbs of an integer 0 <= n <= MaxNarrow
narrow_limbs(n) == <<n % LimbBase, (n \div LimbBase) % LimbBase, n \div (LimbBase * LimbBase)>>

\* The product of limb i of a and limb j of b, 0 when b has no limb j
limb_product(a, b, i, j) == IF j \in 1..3 THEN a[i] * b[j] ELSE 0

\* The sum of the limb products of weight LimbBase^(k-1)
column(a, b, k) ==
    limb_product(a, b, 1, k) + limb_product(a, b, 2, k - 1) + limb_product(a, b, 3, k - 2)

\* The limbs of the number whose columns are cols, carry c coming in
RECURSIVE carried(_, _)
carried(cols, c) ==
    IF cols = << >> THEN (IF c = 0 THEN << >> ELSE <<c>>)
    ELSE <<(Head(cols) + c) % LimbBase>> \o carried(Tail(cols), (Head(cols) + c) \div LimbBase)

\* limbs without the zero limbs at the most significant end
RECURSIVE significant(_)
significant(limbs) ==
    IF limbs # << >> /\ limbs[Len(limbs)] = 0
    THEN significant(SubSeq(limbs, 1, Len(limbs) - 1))
    ELSE limbs

\* whether a magnitude is at most MaxNarrow = 21 4748 3647
is_narrow(limbs) ==
    \/ Len(limbs) <= 2
    \/ /\ Len(limbs) = 3
       /\ \/ limbs[3] < 21
          \/ limbs[3] = 21 /\ limbs[2] * LimbBase + limbs[1] <= 47483647

\* the integer of a narrow magnitude
RECURSIVE narrow_value(_)
narrow_value(limbs) ==
    IF limbs = << >> THEN 0 ELSE Head(limbs) + LimbBase * narrow_value(Tail(limbs))

\* The i64 of sign and magnitude
i64_of(neg, limbs) ==
    IF is_narrow(limbs)
    THEN (IF neg THEN -narrow_value(limbs) ELSE narrow_value(limbs))
    ELSE Wide(neg, limbs)

Abs(a) == IF a < 0 THEN -a ELSE a

\* The magnitude of a * b, limb by limb
magnitude_product(a, b) ==
    significant(carried([k \in 1..5 |-> column(narrow_limbs(a), narrow_limbs(b), k)], 0))

\* a product that keeps the twelve low decimal digits of the magnitude
mul_low_digits(a, b) ==
    i64_of((a < 0) # (b < 0),
           significant(SubSeq(magnitude_product(Abs(a), Abs(b)) \o <<0, 0, 0>>, 1, 3)))

\* i64 `*` on two values of at most MaxNarrow in magnitude. The magnitude of
\* the product is below 2^62, so the multiplication does not overflow an i64
\* in either build profile. (No program of the model multiplies a value
\* beyond MaxNarrow.)
i64_mul(a, b) == i64_of((a < 0) # (b < 0), magnitude_product(Abs(a), Abs(b)))

\* Vec::resize(n, 0)
resize(v, n) ==
    IF n <= Len(v) THEN SubSeq(v, 1, n)
    ELSE v \o [i \in 1..(n - Len(v)) |-> 0]

----------------------------------------------------------------------------
(* Decoder *)

\* ParameterMode::of
ParameterMode_of(k) ==
    CASE k = 0 -> Some("Positional")
      [] k = 1 -> Some("Immediate")
      [] k = 2 -> Some("Relative")
      [] OTHER -> None

\* Instruction::parse_one
parse_one(abc) == ParameterMode_of(rem_euclid(abc, 10))

\* parse_two reading the digits left to right
parse_two_swapped(abc) ==
    LET c == rem_euclid(abc, 10)
        b == rem_euclid(TruncDiv(abc, 10), 10)
        m1 == ParameterMode_of(b)
        m2 == ParameterMode_of(c)
    IN  IF m1 = None \/ m2 = None THEN None
        ELSE Some(<<m1[1], m2[1]>>)

\* Instruction::parse_two
parse_two(abc) ==
    LET c == rem_euclid(abc, 10)
        b == rem_euclid(TruncDiv(abc, 10), 10)
        m1 == ParameterMode_of(c)
        m2 == ParameterMode_of(b)
    IN  IF m1 = None \/ m2 = None THEN None
        ELSE Some(<<m1[1], m2[1]>>)

\* Instruction::parse_three
parse_three(abc) ==
    LET c == rem_euclid(abc, 10)
        b == rem_euclid(TruncDiv(abc, 10), 10)
        a == rem_euclid(TruncDiv(abc, 100), 10)
        m1 == ParameterMode_of(c)
        m2 == ParameterMode_of(b)
        m3 == ParameterMode_of(a)
    IN  IF m1 = None \/ m2 = None \/ m3 = None THEN None
        ELSE Some(<<m1[1], m2[1], m3[1]>>)

\* An Instruction value: its variant and the modes it carries
Instr(kind, modes) == [kind |-> kind, m |-> modes]

\* Instruction::parse, the mode of a one-parameter variant as a list of modes
one_mode(parsed) == IF parsed = None THEN None ELSE Some(parsed)

\* Instruction::parse, `.map(|modes| Instruction::Kind { modes })`
with_modes(kind, parsed) ==
    IF parsed = None THEN None ELSE Some(Instr(kind, parsed[1]))

\* Instruction::parse
parse(abcde) ==
    LET op == rem_euclid(abcde, 100)
        abc == TruncDiv(abcde, 100)
    IN  CASE op = 99 -> Some(Instr("Halt", << >>))
          [] op = 1 -> with_modes("Add", parse_three(abc))
          [] op = 2 -> with_modes("Mult", parse_three(abc))
          [] op = 3 -> with_modes("Input", one_mode(parse_one(abc)))
          [] op = 4 -> with_modes("Output", one_mode(parse_one(abc)))
          [] op = 5 -> with_modes("JumpIfTrue", parse_two(abc))
          [] op = 6 -> with_modes("JumpIfFalse", parse_two(abc))
          [] op = 7 -> with_modes("LessThan", parse_three(abc))
          [] op = 8 -> with_modes("Equals", parse_three(abc))
          [] op = 9 -> with_modes("RelativeBaseAdjust", one_mode(parse_one(abc)))
          [] OTHER -> None

\* Instruction::len
len(instruction, jump) ==
    CASE jump -> 0
      [] instruction.kind = "Halt" -> 1
      [] instruction.kind \in {"Add", "Mult", "LessThan", "Equals"} -> 4
      [] instruction.kind \in {"Input", "Output", "RelativeBaseAdjust"} -> 2
      [] instruction.kind \in {"JumpIfTrue", "JumpIfFalse"} -> 3

----------------------------------------------------------------------------
(* Memory access *)

\* The outcome of a helper that can panic: the Program as the helper left it,
\* whether it panicked, and the value it returned (0 when it has none).
Ok(self, val) == [panic |-> FALSE, self |-> self, val |-> val]
Panic(self) == [panic |-> TRUE, self |-> self, val |-> 0]

\* `self.memory[idx]` with idx a usize: in bounds, or an index-out-of-bounds panic
in_bounds(memory, idx) == 0 <= idx /\ idx < Len(memory)

\* Program::get and Program::set, `if idx >= self.memory.len() { self.memory.resize(idx + 1, 0) }`
\* followed by the access `self.memory[idx]`.
\*   idx < 0 stands for a usize of 2^64 + idx:
\*   idx = -1: idx + 1 overflows; a build with overflow checks panics there, a build
\*             without them wraps to 0, resize(0, 0) empties the vector and the
\*             access that follows panics;
\*   idx < -1: resize asks for more than isize::MAX bytes and panics (capacity
\*             overflow) before it changes the vector.
resize_to_fit(self, idx, oc) ==
    IF idx >= 0
    THEN IF idx >= Len(self.memory)
         THEN Ok([self EXCEPT !.memory = resize(self.memory, idx + 1)], 0)
         ELSE Ok(self, 0)
    ELSE IF idx = -1 /\ ~oc
         THEN Panic([self EXCEPT !.memory = << >>])
         ELSE Panic(self)

\* relative_idx leaving the relative base out
relative_idx_without_base(self, idx) == self.memory[idx + 1]

\* Program::relative_idx (the caller has checked that idx is in bounds)
relative_idx(self, idx) == self.relative_base + self.memory[idx + 1]

\* Program::get, the match that yields read_idx
read_idx(self, idx, mode) ==
    CASE mode = "Immediate" -> idx
      [] mode = "Positional" -> self.memory[idx + 1]
      [] mode = "Relative" -> relative_idx(self, idx)

\* Program::get, the final `self.memory[read_idx]` of the resized memory r
read_at(r, idx) ==
    IF r.panic THEN r ELSE Ok(r.self, r.self.memory[idx + 1])

\* Program::get
get(self, idx, mode, oc) ==
    IF mode # "Immediate" /\ ~in_bounds(self.memory, idx)
    THEN Panic(self)
    ELSE read_at(resize_to_fit(self, read_idx(self, idx, mode), oc),
                 read_idx(self, idx, mode))

\* Program::set, the match that yields write_idx
write_idx(self, idx, mode) ==
    CASE mode = "Positional" -> self.memory[idx + 1]
      [] mode = "Relative" -> relative_idx(self, idx)
      [] OTHER -> idx

\* Program::set, the final `self.memory[write_idx] = value` on the resized memory r
write_at(r, idx, value) ==
    IF r.panic THEN r ELSE Ok([r.self EXCEPT !.memory[idx + 1] = value], 0)

\* Program::set
set(self, idx, value, mode, oc) ==
    IF mode # "Immediate" /\ ~in_bounds(self.memory, idx)
    THEN Panic(self)
    ELSE write_at(resize_to_fit(self, write_idx(self, idx, mode), oc),
                  write_idx(self, idx, mode), value)

\* read_input pushing at the front of the queue instead of the back
read_input_front(self, input) ==
    [self EXCEPT !.input_buffer = <<input>> \o self.input_buffer]

\* Program::read_input
read_input(self, input) ==
    [self EXCEPT !.input_buffer = Append(self.input_buffer, input)]

----------------------------------------------------------------------------
(* Executor *)

\* current_instruction keeping, for the word at cell 0, the instruction it
\* decoded when the program was loaded with an Output of an Immediate operand
\* there
instruction_as_loaded(self) ==
    IF self.instruction_pointer = 0 THEN Some(Instr("Output", <<"Immediate">>))
    ELSE IF in_bounds(self.memory, self.instruction_pointer)
    THEN parse(self.memory[self.instruction_pointer + 1])
    ELSE None

\* Program::current_instruction
current_instruction(self) ==
    IF in_bounds(self.memory, self.instruction_pointer)
    THEN parse(self.memory[self.instruction_pointer + 1])
    ELSE None

\* The second of the two reads a three-parameter instruction starts with,
\* `let p2 = self.get(ip + 2, m2)`, after the first read g1: val is <<p1, p2>>
pair_with(p1, g2) ==
    IF g2.panic THEN g2 ELSE Ok(g2.self, <<p1, g2.val>>)

second_get(g1, idx, m2, oc) ==
    IF g1.panic THEN g1 ELSE pair_with(g1.val, get(g1.self, idx, m2, oc))

\* `let p1 = self.get(ip + 1, m1); let p2 = self.get(ip + 2, m2);`
get_two(self, m1, m2, oc) ==
    second_get(get(self, self.instruction_pointer + 1, m1, oc),
               self.instruction_pointer + 2, m2, oc)

\* `(b) as i64` of a bool
bool_as_i64(b) == IF b THEN 1 ELSE 0

\* Program::perform_add, `self.set(ip + 3, addend1 + addend2, m3)` after the two reads g
set_sum(g, idx, m3, oc) ==
    IF g.panic THEN g ELSE set(g.self, idx, g.val[1] + g.val[2], m3, oc)

\* Program::perform_add
perform_add(self, m1, m2, m3, oc) ==
    set_sum(get_two(self, m1, m2, oc), self.instruction_pointer + 3, m3, oc)

\* Program::perform_mult, `self.set(ip + 3, factor1 * factor2, m3)` after the two reads g
set_product(g, idx, m3, oc) ==
    IF g.panic THEN g ELSE set(g.self, idx, i64_mul(g.val[1], g.val[2]), m3, oc)

\* perform_mult storing the product at the address the second parameter names
perform_mult_over_source(self, m1, m2, m3, oc) ==
    set_product(get_two(self, m1, m2, oc), self.instruction_pointer + 2, m3, oc)

\* Program::perform_mult
perform_mult(self, m1, m2, m3, oc) ==
    set_product(get_two(self, m1, m2, oc), self.instruction_pointer + 3, m3, oc)

\* perform_less_than storing the difference of the operands, which is nonzero
\* exactly when they differ but is not 0 or 1
set_difference(g, idx, m3, oc) ==
    IF g.panic THEN g ELSE set(g.self, idx, g.val[2] - g.val[1], m3, oc)

\* Program::perform_less_than, `self.set(ip + 3, (p1 < p2) as i64, m3)` after the two reads g
set_less_than(g, idx, m3, oc) ==
    IF g.panic THEN g
    ELSE set(g.self, idx, bool_as_i64(g.val[1] < g.val[2]), m3, oc)

\* Program::perform_less_than
perform_less_than(self, m1, m2, m3, oc) ==
    set_less_than(get_two(self, m1, m2, oc), self.instruction_pointer + 3, m3, oc)

\* Program::perform_equals, `self.set(ip + 3, (p1 == p2) as i64, m3)` after the two reads g
set_equals(g, idx, m3, oc) ==
    IF g.panic THEN g
    ELSE set(g.self, idx, bool_as_i64(g.val[1] = g.val[2]), m3, oc)

\* perform_equals comparing with < instead of ==
perform_equals_as_less_than(self, m1, m2, m3, oc) ==
    set_less_than(get_two(self, m1, m2, oc), self.instruction_pointer + 3, m3, oc)

\* Program::perform_equals
perform_equals(self, m1, m2, m3, oc) ==
    set_equals(get_two(self, m1, m2, oc), self.instruction_pointer + 3, m3, oc)

\* Program::perform_input: input.unwrap() panics on None before set is called
perform_input(self, input, mode, oc) ==
    IF input = None THEN Panic(self)
    ELSE set(self, self.instruction_pointer + 1, input[1], mode, oc)

\* Program::perform_jump_if, `self.instruction_pointer = p2 as usize; true`
jump_to(g2) ==
    IF g2.panic THEN g2
    ELSE Ok([g2.self EXCEPT !.instruction_pointer = g2.val], TRUE)

\* Program::perform_jump_if after the read g1 of p1
jump_if(g1, nonzero, idx, m2, oc) ==
    IF g1.panic THEN g1
    ELSE IF (g1.val # 0) = nonzero
         THEN jump_to(get(g1.self, idx, m2, oc))
         ELSE Ok(g1.self, FALSE)

\* perform_jump_if with the sense of the test inverted
perform_jump_unless(self, nonzero, m1, m2, oc) ==
    jump_if(get(self, self.instruction_pointer + 1, m1, oc), ~nonzero,
            self.instruction_pointer + 2, m2, oc)

\* Program::perform_jump_if: val is TRUE when the jump was taken
perform_jump_if(self, nonzero, m1, m2, oc) ==
    jump_if(get(self, self.instruction_pointer + 1, m1, oc), nonzero,
            self.instruction_pointer + 2, m2, oc)

\* perform_rba assigning the operand to the relative base
set_base(g) ==
    IF g.panic THEN g ELSE Ok([g.self EXCEPT !.relative_base = g.val], 0)

\* Program::perform_rba, `self.relative_base += delta`
add_delta(g) ==
    IF g.panic THEN g ELSE Ok([g.self EXCEPT !.relative_base = @ + g.val], 0)

\* perform_rba reading its operand one word early, at the instruction word
perform_rba_from_pointer(self, m1, oc) ==
    add_delta(get(self, self.instruction_pointer, m1, oc))

\* Program::perform_rba
perform_rba(self, m1, oc) ==
    add_delta(get(self, self.instruction_pointer + 1, m1, oc))

\* step popping the newest queued value instead of the oldest
pop_back(q) ==
    IF q = << >> THEN <<None, q>>
    ELSE <<Some(q[Len(q)]), SubSeq(q, 1, Len(q) - 1)>>

\* VecDeque::pop_front as step uses it: <<the popped Option, the remaining queue>>
pop_front(q) ==
    IF q = << >> THEN <<None, q>> ELSE <<Some(Head(q)), Tail(q)>>

\* the Input arm reading the front of the queue without removing it
step_input_peeks(self, m1, oc) ==
    perform_input(self, pop_front(self.input_buffer)[1], m1, oc)

\* Program::step, the Input arm
step_input(self, m1, oc) ==
    perform_input([self EXCEPT !.input_buffer = pop_front(self.input_buffer)[2]],
                  pop_front(self.input_buffer)[1], m1, oc)

\* the Output arm without `self.return_code = Some(output)`
record_output_forgets(g) ==
    IF g.panic THEN g ELSE Ok(g.self, g.val)

\* Program::step, the Output arm after the read g: `self.return_code = Some(output)`;
\* val is the value on_output is called with
record_output(g) ==
    IF g.panic THEN g ELSE Ok([g.self EXCEPT !.return_code = Some(g.val)], g.val)

\* Program::step, the Output arm
step_output(self, m1, oc) ==
    record_output(get(self, self.instruction_pointer + 1, m1, oc))

\* Program::step, the match on the decoded instruction
execute(self, k, m, oc) ==
    CASE k = "Halt" -> Ok(self, 0)
      [] k = "Add" -> perform_add(self, m[1], m[2], m[3], oc)
      [] k = "Mult" -> perform_mult(self, m[1], m[2], m[3], oc)
      [] k = "Input" -> step_input(self, m[1], oc)
      [] k = "Output" -> step_output(self, m[1], oc)
      [] k = "JumpIfTrue" -> perform_jump_if(self, TRUE, m[1], m[2], oc)
      [] k = "JumpIfFalse" -> perform_jump_if(self, FALSE, m[1], m[2], oc)
      [] k = "LessThan" -> perform_less_than(self, m[1], m[2], m[3], oc)
      [] k = "Equals" -> perform_equals(self, m[1], m[2], m[3], oc)
      [] k = "RelativeBaseAdjust" -> perform_rba(self, m[1], oc)

\* The State step returns for an instruction that did not panic
next_state(instruction) ==
    IF instruction.kind = "Halt" THEN "Done" ELSE "Running"

\* step advancing by the length of the instruction after a jump it has taken
never_jumped(instruction, r) == FALSE

\* Program::step, the second component of the match's value
jumped(instruction, r) ==
    instruction.kind \in {"JumpIfTrue", "JumpIfFalse"} /\ r.val

\* step without the call `on_output(output)`
advance_without_callback(r, instruction) ==
    IF r.panic
    THEN [self |-> r.self, state |-> "Panic", out |-> None]
    ELSE [self |-> [r.self EXCEPT
                       !.instruction_pointer = @ + len(instruction, jumped(instruction, r))],
          state |-> next_state(instruction),
          out |-> None]

\* Program::step after the match: `self.instruction_pointer += instruction.len(jumped)`
advance(r, instruction) ==
    IF r.panic
    THEN [self |-> r.self, state |-> "Panic", out |-> None]
    ELSE [self |-> [r.self EXCEPT
                       !.instruction_pointer = @ + len(instruction, jumped(instruction, r))],
          state |-> next_state(instruction),
          out |-> IF instruction.kind = "Output" THEN Some(r.val) ELSE None]

\* Program::step after current_instruction
step_decoded(self, ci, oc) ==
    IF ci = None
    THEN [self |-> self, state |-> "Panic", out |-> None]
    ELSE advance(execute(self, ci[1].kind, ci[1].m, oc), ci[1])

\* Program::step: the Program it leaves, the State it returns ("Panic" when it
\* does not return) and the Option of the value it passed to on_output.
step(self, oc) == step_decoded(self, current_instruction(self), oc)

\* run queueing its inputs from the last to the first
read_inputs_from_last(self, inputs) ==
    [self EXCEPT !.input_buffer =
        @ \o [i \in 1..Len(inputs) |-> inputs[Len(inputs) + 1 - i]]]

\* Program::run, `for input in inputs { self.read_input(*input) }`
RECURSIVE read_inputs(_, _)
read_inputs(self, inputs) ==
    IF inputs = << >> THEN self
    ELSE read_inputs(read_input(self, Head(inputs)), Tail(inputs))

\* run returning after its first step whatever State the step reported
run_once(state) == FALSE

\* Program::run, the loop condition `while let State::Running = self.step(..)`
run_continues(state) == state = "Running"

\* Program::run, the value returned after the loop
run_result(self) == self.return_code

\* a closure that does not assign last_output
closure_forgets(last, out) == last

\* Program::await_output, the closure handed to step: last_output = Some(x)
await_closure(last, out) == IF out = None THEN last ELSE out

\* await_output looping until Done whatever last_output holds
await_continues_until_done(state, last) == state # "Done"

\* Program::await_output, whether the loop goes round again: it breaks on
\* State::Done and ends when last_output is no longer None
await_continues(state, last) == state # "Done" /\ last = None

\* is_terminated taking a missing or undecodable instruction for Halt
is_halt_or_missing(ci) == IF ci = None THEN TRUE ELSE ci[1].kind = "Halt"

\* Program::is_terminated, the match on the Option
is_halt(ci) == IF ci = None THEN FALSE ELSE ci[1].kind = "Halt"

\* Program::is_terminated
is_terminated(self) == is_halt(current_instruction(self))

\* Program::from_str applied to a line that holds these integers
from_str(words) ==
    [memory |-> words,
     instruction_pointer |-> 0,
     relative_base |-> 0,
     return_code |-> None,
     input_buffer |-> << >>]

----------------------------------------------------------------------------
(* The programs and input values the machine is driven with *)

\* Instruction words, addresses and data the enumerated programs are made of:
\* Halt, Input (positional, relative), Output (positional, immediate),
\* an unknown opcode and -1
Words == {99, 3, 203, 4, 104, 0, -1}

ShortPrograms == UNION {[1..n -> Words] : n \in 1..MaxLen}

\* Programs of the crate's tests
TestPrograms ==
    { <<1, 0, 0, 0, 99>>,
      <<2, 3, 0, 3, 99>>,
      <<3, 9, 8, 9, 10, 9, 4, 9, 99, -1, 8>>,
      <<3, 3, 1105, -1, 9, 1101, 0, 0, 12, 4, 12, 99, 1>> }

\* Longer programs: two inputs echoed in order, an input-output loop, a
\* relative write and read, a relative write below address 0, an output
\* followed by two Halt words, an unknown mode digit, a jump out of the
\* memory, and a jump over an output
DriverPrograms ==
    { <<3, 9, 3, 10, 4, 9, 4, 10, 99, 0, 0>>,
      <<3, 0, 4, 0, 1105, 1, 0>>,
      <<109, 7, 203, 0, 204, 0, 99>>,
      <<109, -3, 203, 0, 99>>,
      <<104, 5, 99, 99>>,
      <<304, 0, 99>>,
      <<1105, 1, 7, 99>>,
      <<1105, 1, 5, 104, 1, 104, 2, 99>> }

Programs == ShortPrograms \cup TestPrograms \cup DriverPrograms

InputVals == {0, 8}

\* The argument lists of run
InputLists == UNION {[1..n -> InputVals] : n \in 0..MaxInputs}

----------------------------------------------------------------------------
(* The state machine *)

\* What ev records of an operation: its name, whether the call has returned,
\* the State of the step it made ("none" when it made none), the value the
\* call returned, and the Program and the output history it started from
Event(op, returned, state, ret) ==
    [op |-> op, returned |-> returned, state |-> state, ret |-> ret,
     before |-> prog, outs |-> outputs]

Init ==
    /\ prog \in {from_str(w) : w \in Programs}
    /\ pc = "idle"
    /\ last_output = None
    /\ outputs = << >>
    /\ ev = Event("from_str", TRUE, "none", None)
    /\ call_outputs = 0
    /\ appended = << >>
    /\ consumed = << >>
    /\ overflow_checks \in BOOLEAN
    /\ heap = << >>
    /\ vm = << >>
    /\ driven = << >>
    /\ alone = << >>
    /\ feedback = << >>

\* Whether the call of step that took `self` to r executed an Input instruction
executed_input(self, r) ==
    /\ r.state # "Panic"
    /\ current_instruction(self)[1].kind = "Input"

\* The effect of one call of step on the Program and on its histories; `since`
\* is the number of outputs of the call in progress before this step
Effect(r, since) ==
    /\ prog' = r.self
    /\ outputs' = outputs \o r.out
    /\ call_outputs' = since + Len(r.out)
    /\ consumed' = IF executed_input(prog, r)
                   THEN Append(consumed,
                               r.self.memory[write_idx(prog, prog.instruction_pointer + 1,
                                                       current_instruction(prog)[1].m[1]) + 1])
                   ELSE consumed
    /\ UNCHANGED <<appended, overflow_checks>>

\* One call of step by a driver that holds this one Program
Recorded(r, since) ==
    /\ Effect(r, since)
    /\ UNCHANGED clone_vars

\* One call of step, made while the behaviour has room for its output
Stepped(r, since) ==
    /\ Len(outputs) + Len(r.out) <= MaxOutputs
    /\ Recorded(r, since)

\* read_input(v), called by the driver between calls
ReadInput(v) ==
    /\ pc = "idle"
    /\ Len(appended) < MaxInputs
    /\ prog' = read_input(prog, v)
    /\ appended' = Append(appended, v)
    /\ ev' = Event("read_input", TRUE, "none", None)
    /\ UNCHANGED <<pc, last_output, outputs, call_outputs, consumed, overflow_checks, clone_vars>>

StepReturns(r) ==
    /\ Stepped(r, 0)
    /\ pc' = IF r.state = "Panic" THEN "panicked" ELSE "idle"
    /\ ev' = Event("step", r.state # "Panic", r.state, None)
    /\ UNCHANGED last_output

\* one call of step (the crate's tests call it directly)
Step ==
    /\ pc = "idle"
    /\ StepReturns(step(prog, overflow_checks))

\* run(inputs, on_output) is entered: the inputs are queued
RunCall(inputs) ==
    /\ pc = "idle"
    /\ Len(appended) + Len(inputs) <= MaxInputs
    /\ prog' = read_inputs(prog, inputs)
    /\ appended' = appended \o inputs
    /\ pc' = "run"
    /\ call_outputs' = 0
    /\ ev' = Event("run", FALSE, "none", None)
    /\ UNCHANGED <<last_output, outputs, consumed, overflow_checks, clone_vars>>

\* Where one round of run's loop leaves the call: still in the loop, returned
\* with return_code, or panicked
RunLoop(r, returns) ==
    /\ pc' = CASE r.state = "Panic" -> "panicked"
               [] returns -> "idle"
               [] OTHER -> "run"
    /\ ev' = Event("run", returns, r.state,
                   IF returns THEN run_result(r.self) ELSE None)
    /\ UNCHANGED last_output

RunRound(r, returns) ==
    /\ Stepped(r, call_outputs)
    /\ RunLoop(r, returns)

RunStepped(r) == RunRound(r, r.state # "Panic" /\ ~run_continues(r.state))

\* one round of run's loop; the round that ends the loop returns return_code
RunStep ==
    /\ pc = "run"
    /\ RunStepped(step(prog, overflow_checks))

\* await_output(on_output) is entered: let mut last_output = None
AwaitCall ==
    /\ pc = "idle"
    /\ pc' = "await_output"
    /\ last_output' = None
    /\ call_outputs' = 0
    /\ ev' = Event("await_output", FALSE, "none", None)
    /\ UNCHANGED <<prog, outputs, appended, consumed, overflow_checks, clone_vars>>

\* Where one round of await_output's loop leaves the call: still in the loop,
\* returned with last_output, or panicked
AwaitLoop(r, last, returns) ==
    /\ pc' = CASE r.state = "Panic" -> "panicked"
               [] returns -> "idle"
               [] OTHER -> "await_output"
    /\ last_output' = IF returns THEN None ELSE last
    /\ ev' = Event("await_output", returns, r.state,
                   IF returns THEN last ELSE None)

AwaitRound(r, last, returns) ==
    /\ Stepped(r, call_outputs)
    /\ AwaitLoop(r, last, returns)

AwaitStepped(r, last) ==
    AwaitRound(r, last, r.state # "Panic" /\ ~await_continues(r.state, last))

\* one round of await_output's loop; the round that ends the loop returns last_output
AwaitStep ==
    /\ pc = "await_output"
    /\ AwaitStepped(step(prog, overflow_checks),
                    await_closure(last_output, step(prog, overflow_checks).out))

\* is_terminated()
IsTerminated ==
    /\ pc = "idle"
    /\ ev' = Event("is_terminated", TRUE, "none", Some(is_terminated(prog)))
    /\ UNCHANGED <<prog, pc, last_output, outputs, call_outputs, appended, consumed,
                   overflow_checks, clone_vars>>

Next ==
    \/ \E v \in InputVals : ReadInput(v)
    \/ Step
    \/ \E inputs \in InputLists : RunCall(inputs)
    \/ RunStep
    \/ AwaitCall
    \/ AwaitStep
    \/ IsTerminated

Spec == Init /\ [][Next]_vars

----------------------------------------------------------------------------
(* A driver that clones: #[derive(Clone)] on struct Program, as clone_test   *)
(* uses it (`let program2 = program.clone()`) and then drives the instances  *)
(* from one thread, one call at a time.  A Vec and a VecDeque own a buffer   *)
(* on the heap; the struct holds the buffer, here the index of the buffer    *)
(* in `heap`.                                                                *)

\* The names clone_test gives the source and its clone
Instances == {"program", "program2"}

\* a clone that copies the pointer to the buffer instead of the buffer
Vec_alias(h, buf) == [heap |-> h, buf |-> buf]

\* Vec::clone and VecDeque::clone: a new buffer with the same elements
Vec_clone(h, buf) == [heap |-> Append(h, h[buf]), buf |-> Len(h) + 1]

\* a clone that starts without the return code of its source
clone_without_return_code(self, m, q) ==
    [heap |-> q.heap,
     self |-> [self EXCEPT !.memory = m.buf, !.input_buffer = q.buf,
                           !.return_code = None]]

\* The clone of the fields once the memory has been cloned as m
clone_input_buffer(self, m, q) ==
    [heap |-> q.heap,
     self |-> [self EXCEPT !.memory = m.buf, !.input_buffer = q.buf]]

clone_memory(self, m) ==
    clone_input_buffer(self, m, Vec_clone(m.heap, self.input_buffer))

\* Program::clone as derived: every field cloned, in declaration order; the
\* usize, i64 and Option<i64> fields are copied
Program_clone(h, self) == clone_memory(self, Vec_clone(h, self.memory))

\* The Program value of an instance: its fields with the buffers' contents
deref(h, self) ==
    [self EXCEPT !.memory = h[self.memory], !.input_buffer = h[self.input_buffer]]

\* The heap once a method has left the instance `self` with the value `after`
store(h, self, after) ==
    [b \in 1..Len(h) |->
        CASE b = self.memory -> after.memory
          [] b = self.input_buffer -> after.input_buffer
          [] OTHER -> h[b]]

\* The struct of the instance `self` once a method has left it with the value `after`
fields(self, after) ==
    [after EXCEPT !.memory = self.memory, !.input_buffer = self.input_buffer]

\* Programs the cloning driver starts from: the program of clone_test, two
\* inputs echoed in order, a relative write and read, an input stored over
\* the program's first word and echoed
CloneTemplates ==
    { <<3, 3, 1105, -1, 9, 1101, 0, 0, 12, 4, 12, 99, 1>>,
      <<3, 9, 3, 10, 4, 9, 4, 10, 99, 0, 0>>,
      <<109, 7, 203, 0, 204, 0, 99>>,
      <<3, 0, 4, 0, 99>> }

\* What ev records of a call on an instance
CloneEvent(op, on, returned, state, ret) ==
    [op |-> op, on |-> on, returned |-> returned, state |-> state, ret |-> ret]

\* `let mut program = Program::from_str(code);`
CloneInit ==
    /\ prog \in {from_str(w) : w \in CloneTemplates}
    /\ pc = "idle"
    /\ last_output = None
    /\ outputs = << >>
    /\ ev = CloneEvent("from_str", "program", TRUE, "none", None)
    /\ call_outputs = 0
    /\ appended = << >>
    /\ consumed = << >>
    /\ overflow_checks \in BOOLEAN
    /\ heap = <<prog.memory, prog.input_buffer>>
    /\ vm = [i \in {"program"} |-> [prog EXCEPT !.memory = 1, !.input_buffer = 2]]
    /\ driven = [i \in {"program"} |-> [outs |-> << >>, state |-> "none"]]
    /\ alone = [i \in {"program"} |->
                   [self |-> prog, outs |-> << >>, state |-> "none", pushed |-> 0]]
    /\ feedback = << >>

\* The variables of the driver of one Program, which the cloning driver leaves alone
single_vars == <<prog, outputs, call_outputs, appended, consumed, overflow_checks, feedback>>

\* The instances once `on` has been cloned into h.self on the heap h.heap
Cloned(h) ==
    /\ heap' = h.heap
    /\ vm' = [i \in Instances |-> IF i = "program2" THEN h.self ELSE vm[i]]
    /\ driven' = [i \in Instances |-> driven["program"]]
    /\ alone' = [i \in Instances |-> alone["program"]]

\* `let program2 = program.clone();`
Clone ==
    /\ pc = "idle"
    /\ DOMAIN vm = {"program"}
    /\ Cloned(Program_clone(heap, vm["program"]))
    /\ ev' = CloneEvent("clone", "program2", TRUE, "none", None)
    /\ UNCHANGED <<pc, last_output, single_vars>>

\* The effect of a method that took instance i from deref(heap, vm[i]) to the
\* value `after`, and takes an instance that is alone to `after_alone`
Drive(i, after, out, state, after_alone) ==
    /\ heap' = store(heap, vm[i], after)
    /\ vm' = [vm EXCEPT ![i] = fields(vm[i], after)]
    /\ driven' = [driven EXCEPT ![i] = [outs |-> @.outs \o out, state |-> state]]
    /\ alone' = [alone EXCEPT ![i] = after_alone]

\* read_input(v) on instance i
CloneReadInput(i, v) ==
    /\ pc = "idle"
    /\ i \in DOMAIN vm
    /\ alone[i].pushed < MaxInputs
    /\ Drive(i, read_input(deref(heap, vm[i]), v), << >>, driven[i].state,
             [alone[i] EXCEPT !.self = read_input(@, v), !.pushed = @ + 1])
    /\ ev' = CloneEvent("read_input", i, TRUE, "none", None)
    /\ UNCHANGED <<pc, last_output, single_vars>>

\* The effect of one call of step on instance i: r is what it does there, ra
\* what it does on the instance that is alone
CloneStepped(i, r, ra) ==
    /\ Len(driven[i].outs) + Len(r.out) <= MaxOutputs
    /\ Drive(i, r.self, r.out, r.state,
             [self |-> ra.self, outs |-> alone[i].outs \o ra.out, state |-> ra.state,
              pushed |-> alone[i].pushed])

CloneStepReturns(i, r, ra) ==
    /\ CloneStepped(i, r, ra)
    /\ pc' = IF r.state = "Panic" THEN "panicked" ELSE "idle"
    /\ ev' = CloneEvent("step", i, r.state # "Panic", r.state, None)
    /\ UNCHANGED <<last_output, single_vars>>

\* step on instance i
CloneStep(i) ==
    /\ pc = "idle"
    /\ i \in DOMAIN vm
    /\ CloneStepReturns(i, step(deref(heap, vm[i]), overflow_checks),
                        step(alone[i].self, overflow_checks))

\* await_output is entered on instance i
CloneAwaitCall(i) ==
    /\ pc = "idle"
    /\ i \in DOMAIN vm
    /\ pc' = "await_output"
    /\ last_output' = None
    /\ ev' = CloneEvent("await_output", i, FALSE, "none", None)
    /\ UNCHANGED <<clone_vars, single_vars>>

CloneAwaitRound(i, r, ra, last, returns) ==
    /\ CloneStepped(i, r, ra)
    /\ pc' = CASE r.state = "Panic" -> "panicked"
               [] returns -> "idle"
               [] OTHER -> "await_output"
    /\ last_output' = IF returns THEN None ELSE last
    /\ ev' = CloneEvent("await_output", i, returns, r.state,
                        IF returns THEN last ELSE None)
    /\ UNCHANGED single_vars

CloneAwaitStepped(i, r, ra, last) ==
    CloneAwaitRound(i, r, ra, last,
                    r.state # "Panic" /\ ~await_continues(r.state, last))

\* one round of the loop of the await_output in progress
CloneAwaitStep ==
    /\ pc = "await_output"
    /\ CloneAwaitStepped(ev.on, step(deref(heap, vm[ev.on]), overflow_checks),
                         step(alone[ev.on].self, overflow_checks),
                         await_closure(last_output,
                                       step(deref(heap, vm[ev.on]), overflow_checks).out))

CloneNext ==
    \/ Clone
    \/ \E i \in Instances, v \in InputVals : CloneReadInput(i, v)
    \/ \E i \in Instances : CloneStep(i)
    \/ \E i \in Instances : CloneAwaitCall(i)
    \/ CloneAwaitStep

CloneSpec == CloneInit /\ [][CloneNext]_vars

----------------------------------------------------------------------------
(* One instruction at a time: every instruction word that decodes, with      *)
(* operands chosen so that every way of resolving them happens, behind an    *)
(* instruction that sets the relative base, and stepped as the crate's       *)
(* tests step.                                                               *)

\* ParameterMode::of decodes exactly these digits
ModeDigits == {0, 1, 2}

\* The opcodes of Instruction::parse by the number of modes they carry
OneParameter == {3, 4, 9}
TwoParameters == {5, 6}
ThreeParameters == {1, 2, 7, 8}

\* The parameter words: a negative value and address, zero and the address of
\* the first word, the address of a word of the instruction itself, and an
\* address beyond the end of the program
OperandWords == {-1, 0, 4, 8}

\* The values the relative base is set to
Bases == {2, -3}

\* `109,B,` then one instruction with its parameter words, then Halt
InstructionProgram(B, word, params) == <<109, B, word>> \o params \o <<99>>

InstructionPrograms ==
    { InstructionProgram(B, op + 100 * c, <<p>>) :
          B \in Bases, op \in OneParameter, c \in ModeDigits, p \in OperandWords }
    \cup
    { InstructionProgram(B, op + 100 * m[1] + 1000 * m[2], p) :
          B \in Bases, op \in TwoParameters,
          m \in [1..2 -> ModeDigits], p \in [1..2 -> OperandWords] }
    \cup
    { InstructionProgram(B, op + 100 * m[1] + 1000 * m[2] + 10000 * m[3], p) :
          B \in Bases, op \in ThreeParameters,
          m \in [1..3 -> ModeDigits], p \in [1..3 -> OperandWords] }

\* The state after `Program::from_str` of one of `programs`, as Init
Constructed(programs) ==
    /\ prog \in {from_str(w) : w \in programs}
    /\ pc = "idle"
    /\ last_output = None
    /\ outputs = << >>
    /\ ev = Event("from_str", TRUE, "none", None)
    /\ call_outputs = 0
    /\ appended = << >>
    /\ consumed = << >>
    /\ overflow_checks \in BOOLEAN
    /\ heap = << >>
    /\ vm = << >>
    /\ driven = << >>
    /\ alone = << >>
    /\ feedback = << >>

InstructionInit == Constructed(InstructionPrograms)

\* step, called while the relative base is within the bound: a program that
\* jumps back to its first word adds B to the relative base on every round
InstructionStep ==
    /\ -MaxBase <= prog.relative_base
    /\ prog.relative_base <= MaxBase
    /\ Step

InstructionNext ==
    \/ \E v \in InputVals : ReadInput(v)
    \/ InstructionStep

InstructionSpec == InstructionInit /\ [][InstructionNext]_vars

----------------------------------------------------------------------------
(* The driver's three ways to touch one Program between steps: read_input,   *)
(* step and is_terminated, on the instruction programs whose parameter words *)
(* are -1 and 4.                                                             *)

DriverWords == {-1, 4}

DriverInstructionPrograms ==
    { w \in InstructionPrograms : \A i \in 4..(Len(w) - 1) : w[i] \in DriverWords }

DriverInit == Constructed(DriverInstructionPrograms)

DriverNext ==
    \/ \E v \in InputVals : ReadInput(v)
    \/ InstructionStep
    \/ IsTerminated

DriverSpec == DriverInit /\ [][DriverNext]_vars

----------------------------------------------------------------------------
(* Programs that rewrite the instruction they started with:                  *)
(* 104,7 outputs 7; 1101,a,b,0 stores a + b in cell 0; 1105,1,0 jumps back   *)
(* to cell 0, where the word is now a + b.                                   *)

\* The first addend: an instruction word of every kind
RewriteWords == {99, 1, 1101, 1102, 3, 4, 104, 5, 1105, 1106, 1107, 1108, 9, 109}

\* The second addend: nothing, or the digit that makes the first operand Relative
RewriteDigits == {0, 200}

rewriting_code(a, b) == <<104, 7, 1101, a, b, 0, 1105, 1, 0>>

RewritingPrograms == { rewriting_code(a, b) : a \in RewriteWords, b \in RewriteDigits }

RewriteInit == Constructed(RewritingPrograms)

RewriteNext ==
    \/ \E v \in InputVals : ReadInput(v)
    \/ InstructionStep

RewriteSpec == RewriteInit /\ [][RewriteNext]_vars

----------------------------------------------------------------------------
(* The decoder on every word: a program whose first word is any word of up   *)
(* to five decimal digits, followed by three zero parameter words, stepped.  *)

MaxWord == 99999      \* largest first word: two opcode digits and three mode digits

DecoderPrograms == { <<w, 0, 0, 0>> : w \in 0..MaxWord }

DecodeInit == Constructed(DecoderPrograms)

DecodeNext == Step

DecodeSpec == DecodeInit /\ [][DecodeNext]_vars

----------------------------------------------------------------------------
(* The program of equal_test, run with one input as equal_test runs it       *)

MaxInput == 17        \* largest value passed to run

equal_test_code == <<3, 9, 8, 9, 10, 9, 4, 9, 99, -1, 8>>

\* The values run is called with: 8 and 17 as in equal_test, and the others
\* from -1 on
EqualTestInputs == -1..MaxInput

EqualTestInit == Constructed({equal_test_code})

EqualTestNext ==
    \/ \E v \in EqualTestInputs : RunCall(<<v>>)
    \/ RunStep

EqualTestSpec == EqualTestInit /\ [][EqualTestNext]_vars

----------------------------------------------------------------------------
(* A test that constructs a Program and runs it to its end: run is called    *)
(* once, on the Program from_str returned, and its rounds are not held to    *)
(* MaxOutputs.                                                               *)

\* run(inputs, on_output) is entered on the freshly constructed Program
RunFresh(inputs) ==
    /\ ev.op = "from_str"
    /\ RunCall(inputs)

RunToEndRound(r, returns) ==
    /\ Recorded(r, call_outputs)
    /\ RunLoop(r, returns)

RunToEndStepped(r) == RunToEndRound(r, r.state # "Panic" /\ ~run_continues(r.state))

\* one round of run's loop
RunToEndStep ==
    /\ pc = "run"
    /\ RunToEndStepped(step(prog, overflow_checks))

\* quine_test and long_test pass &[], and their programs have no Input
\* instruction to take what another caller queues
RunToEndNext ==
    \/ \E inputs \in InputLists : RunFresh(inputs)
    \/ RunToEndStep

----------------------------------------------------------------------------
(* The program of quine_test                                                 *)

quine_code == <<109, 1, 204, -1, 1001, 100, 1, 100, 1008, 100, 16, 101, 1006, 101, 0, 99>>

QuineInit == Constructed({quine_code})

QuineSpec == QuineInit /\ [][RunToEndNext]_vars

----------------------------------------------------------------------------
(* The programs of long_test: 1102,a,b,7,4,7,99,0 multiplies two immediate   *)
(* values into cell 7 and outputs it; 104,w,99 outputs the immediate w.      *)

\* 34915192 as in long_test, the smallest and largest values of eight
\* digits, a negative one and two small ones
Factors == {34915192, -34915192, 10000000, 99999999, 46341, 3}

\* 1125899906842624 = 2^50 as in long_test, its negation, i64::MAX and
\* MaxNarrow + 1
Literals == { Wide(FALSE, <<2624, 684, 8999, 1125>>), Wide(TRUE, <<2624, 684, 8999, 1125>>),
              Wide(FALSE, <<5807, 5477, 368, 3372, 922>>), Wide(FALSE, <<3648, 4748, 21>>) }

product_code(a, b) == <<1102, a, b, 7, 4, 7, 99, 0>>

literal_code(w) == <<104, w, 99>>

LongPrograms ==
    { product_code(a, b) : a \in Factors, b \in Factors } \cup { literal_code(w) : w \in Literals }

LongInit == Constructed(LongPrograms)

LongSpec == LongInit /\ [][RunToEndNext]_vars

----------------------------------------------------------------------------
(* The program of longer_test, given one input with read_input and stepped   *)
(* as longer_test steps it                                                   *)

longer_test_code ==
    <<3, 21, 1008, 21, 8, 20, 1005, 20, 22, 107, 8, 21, 20, 1006, 20, 31, 1106, 0, 36, 98, 0, 0,
      1002, 21, 125, 20, 4, 20, 1105, 1, 46, 104, 999, 1105, 1, 46, 1101, 1000, 1, 20, 4, 20,
      1105, 1, 46, 98, 99>>

\* The values read_input is called with: -3, 8 and 88 as in longer_test, and
\* the others up to MaxInput
LongerTestInputs == (-3..MaxInput) \cup {88}

LongerTestInit == Constructed({longer_test_code})

LongerTestNext ==
    \/ \E v \in LongerTestInputs : ReadInput(v)
    \/ Step

LongerTestSpec == LongerTestInit /\ [][LongerTestNext]_vars

----------------------------------------------------------------------------
(* Program::from_str on a line of text. A line is the sequence of its        *)
(* characters, each a string of one character.                               *)

MaxLine == 4          \* longest line of the enumerated lines

Digits == {"0", "1", "2", "3", "4", "5", "6", "7", "8", "9"}

\* char::to_digit(10) of an ASCII digit
to_digit(c) ==
    CASE c = "0" -> 0 [] c = "1" -> 1 [] c = "2" -> 2 [] c = "3" -> 3 [] c = "4" -> 4
      [] c = "5" -> 5 [] c = "6" -> 6 [] c = "7" -> 7 [] c = "8" -> 8 [] c = "9" -> 9

\* The magnitude 10 * limbs + d: `result * radix`, then the digit added (or,
\* for a negative number, subtracted)
RECURSIVE push_digit(_, _)
push_digit(limbs, d) ==
    IF limbs = << >> THEN (IF d = 0 THEN << >> ELSE <<d>>)
    ELSE <<(Head(limbs) * 10 + d) % LimbBase>>
             \o push_digit(Tail(limbs), (Head(limbs) * 10 + d) \div LimbBase)

\* The magnitude the digits ds bring acc to, left to right
RECURSIVE accumulate(_, _)
accumulate(ds, acc) ==
    IF ds = << >> THEN acc ELSE accumulate(Tail(ds), push_digit(acc, to_digit(Head(ds))))

\* whether magnitude x is greater than magnitude y (both without leading zero limbs)
RECURSIVE magnitude_greater(_, _)
magnitude_greater(x, y) ==
    IF Len(x) # Len(y) THEN Len(x) > Len(y)
    ELSE IF x = << >> THEN FALSE
    ELSE IF x[Len(x)] # y[Len(y)] THEN x[Len(x)] > y[Len(y)]
    ELSE magnitude_greater(SubSeq(x, 1, Len(x) - 1), SubSeq(y, 1, Len(y) - 1))

\* The magnitudes of i64::MAX = 9223372036854775807 and of i64::MIN
i64_MAX == <<5807, 5477, 368, 3372, 922>>
i64_MIN == <<5808, 5477, 368, 3372, 922>>

\* checked_mul and checked_add (checked_sub for a negative number) fail at the
\* digit that takes the value out of the i64 range; the magnitude only grows
\* from digit to digit, so they fail when the magnitude of all the digits is
\* out of the range
overflows(limbs, neg) == magnitude_greater(limbs, IF neg THEN i64_MIN ELSE i64_MAX)

\* i64::from_str_radix after the sign: every character must be a digit
digits_value(ds, neg) ==
    IF \E i \in 1..Len(ds) : ds[i] \notin Digits THEN None
    ELSE IF overflows(accumulate(ds, << >>), neg) THEN None
    ELSE Some(i64_of(neg, accumulate(ds, << >>)))

\* i64::from_str_radix(s, 10).ok(): None for the empty string, for a sign
\* alone, for a character that is no digit and for a value out of range; one
\* leading '+' or '-' is taken as the sign
from_str_radix(s) ==
    IF s = << >> THEN None
    ELSE IF Head(s) \in {"+", "-"}
         THEN (IF Tail(s) = << >> THEN None ELSE digits_value(Tail(s), Head(s) = "-"))
         ELSE digits_value(s, FALSE)

\* line.split(","), the token `tok` being the one in progress
RECURSIVE split(_, _)
split(line, tok) ==
    IF line = << >> THEN <<tok>>
    ELSE IF Head(line) = "," THEN <<tok>> \o split(Tail(line), << >>)
    ELSE split(Tail(line), Append(tok, Head(line)))

\* a collect that ends at the first token that does not parse
RECURSIVE map_while(_)
map_while(tokens) ==
    IF tokens = << >> THEN << >>
    ELSE IF from_str_radix(Head(tokens)) = None THEN << >>
    ELSE from_str_radix(Head(tokens)) \o map_while(Tail(tokens))

\* .flat_map(|s| i64::from_str_radix(s, 10).ok()).collect(): the values of
\* the tokens that parse, in order
RECURSIVE flat_map(_)
flat_map(tokens) ==
    IF tokens = << >> THEN << >>
    ELSE from_str_radix(Head(tokens)) \o flat_map(Tail(tokens))

\* Program::from_str(line)
Program_from_str(line) == from_str(flat_map(split(line, << >>)))

\* The characters of the enumerated lines: two digits, the signs, the comma
\* and a character that belongs to no integer
Chars == {"0", "1", "-", "+", ",", " "}

ShortLines == UNION {[1..n -> Chars] : n \in 0..MaxLine}

\* Lines with values at and beyond the ends of the i64 range, the line of
\* long_test, and a line with a letter, a space and a final newline
LongLines ==
    { <<"1", "0", "4", ",", "1", "1", "2", "5", "8", "9", "9", "9", "0", "6", "8", "4", "2", "6", "2", "4", ",", "9", "9">>,
      <<"9", "2", "2", "3", "3", "7", "2", "0", "3", "6", "8", "5", "4", "7", "7", "5", "8", "0", "7", ",", "-", "9", "2", "2", "3", "3", "7", "2", "0", "3", "6", "8", "5", "4", "7", "7", "5", "8", "0", "8">>,
      <<"9", "2", "2", "3", "3", "7", "2", "0", "3", "6", "8", "5", "4", "7", "7", "5", "8", "0", "8", ",", "5">>,
      <<"-", "9", "2", "2", "3", "3", "7", "2", "0", "3", "6", "8", "5", "4", "7", "7", "5", "8", "0", "9", ",", "5">>,
      <<"+", "2", "1", "4", "7", "4", "8", "3", "6", "4", "8", ",", "-", "0">>,
      <<"3", ",", "x", ",", "+", "4", ",", " ", "5", ",", "6", "\n">> }

Lines == ShortLines \cup LongLines

\* Before the Program is constructed
ParseInit ==
    /\ prog = << >>
    /\ pc = "new"
    /\ last_output = None
    /\ outputs = << >>
    /\ ev = [op |-> "none"]
    /\ call_outputs = 0
    /\ appended = << >>
    /\ consumed = << >>
    /\ overflow_checks \in BOOLEAN
    /\ heap = << >>
    /\ vm = << >>
    /\ driven = << >>
    /\ alone = << >>
    /\ feedback = << >>

\* Program::from_str(line); ev keeps the line
FromStr(line) ==
    /\ pc = "new"
    /\ prog' = Program_from_str(line)
    /\ pc' = "idle"
    /\ ev' = [op |-> "from_str", returned |-> TRUE, state |-> "none", ret |-> None, line |-> line]
    /\ UNCHANGED <<last_output, outputs, call_outputs, appended, consumed, overflow_checks,
                   clone_vars>>

ParseNext == \E line \in Lines : FromStr(line)

ParseSpec == ParseInit /\ [][ParseNext]_vars

----------------------------------------------------------------------------
(* day07, amp_stack_feeback: five clones of one program, each given its      *)
(* phase setting, then fed round-robin with the output of the one before.    *)
(* vm is the Vec `amps`; amps[i] of the source is vm[i + 1].  `driven` is    *)
(* the log of the outputs: which amplifier passed which value to on_output.  *)

\* The program of the test amp_stack_1_feedback
amp_code ==
    <<3, 26, 1001, 26, -4, 26, 3, 27, 1002, 27, 2, 27, 1, 27, 26, 27, 4, 27,
      1001, 28, -1, 28, 1005, 28, 6, 99, 0, 0, 5>>

\* The vectors Permutations::new(5) yields: the orderings of 0..4
Perms == { p \in [1..5 -> 0..4] : \A a, b \in 1..5 : p[a] = p[b] => a = b }

\* `(perm[i] + 5)`: the phase setting of amplifier i
phase(perm, i) == perm[i + 1] + 5

\* a loop that goes back to the amplifier it has just driven
same_amp(i) == i

\* `std::iter::repeat(0..5).flatten()`: the index that follows i
next_amp(i) == (i + 1) % 5

\* `let program = Program::from_str(..)` in the test, then the call
\* amp_stack_feeback(&program, &perm)
FeedbackInit ==
    /\ prog = from_str(amp_code)
    /\ pc = "seed"
    /\ last_output = None
    /\ outputs = << >>
    /\ ev = CloneEvent("from_str", 0, TRUE, "none", None)
    /\ call_outputs = 0
    /\ appended = << >>
    /\ consumed = << >>
    /\ overflow_checks \in BOOLEAN
    /\ heap = <<prog.memory, prog.input_buffer>>
    /\ vm = << >>
    /\ driven = << >>
    /\ alone = << >>
    /\ feedback \in { [program |-> [prog EXCEPT !.memory = 1, !.input_buffer = 2],
                       perm |-> p, i |-> 0, last_output |-> 0, returned |-> None]
                      : p \in Perms }

\* The log once amps[i] has made a step that passed `out` to on_output
logged(log, i, out) ==
    IF out = None THEN log ELSE Append(log, [on |-> i, out |-> out[1]])

\* The variables amp_stack_feeback has no part in
feedback_frame ==
    <<prog, outputs, call_outputs, appended, consumed, overflow_checks, driven, alone>>

\* The amplifier cloned as h.self on the heap h.heap, given its phase setting
\* v and pushed onto amps
Seeded(h, v) ==
    /\ heap' = store(h.heap, h.self, read_input(deref(h.heap, h.self), v))
    /\ vm' = Append(vm, h.self)

\* `(0..5).map(|i| { let mut p = program.clone(); p.read_input(..); p })`, one
\* round; after the fifth, `.collect()` and `let mut last_output = 0`
FeedbackSeed ==
    /\ pc = "seed"
    /\ Seeded(Program_clone(heap, feedback.program), phase(feedback.perm, Len(vm)))
    /\ pc' = IF Len(vm) = 4 THEN "feed" ELSE "seed"
    /\ ev' = CloneEvent("clone", Len(vm), TRUE, "none", None)
    /\ UNCHANGED <<last_output, feedback, feedback_frame>>

\* `amp.read_input(last_output)` on amps[i], and await_output is entered
FeedbackFeed ==
    /\ pc = "feed"
    /\ heap' = store(heap, vm[feedback.i + 1],
                     read_input(deref(heap, vm[feedback.i + 1]), feedback.last_output))
    /\ pc' = "await_output"
    /\ last_output' = None
    /\ ev' = CloneEvent("await_output", feedback.i, FALSE, "none", None)
    /\ UNCHANGED <<vm, feedback, feedback_frame>>

\* The locals once await_output has returned `last`:
\* `if let Some(out) = .. { last_output = out } else { return Some(last_output) }`
fed_back(f, last) ==
    IF last = None
    THEN [f EXCEPT !.returned = Some(f.last_output)]
    ELSE [f EXCEPT !.last_output = last[1], !.i = next_amp(f.i)]

FeedbackAwaitRound(a, r, last, returns) ==
    /\ heap' = store(heap, vm[a], r.self)
    /\ vm' = [vm EXCEPT ![a] = fields(vm[a], r.self)]
    /\ pc' = CASE r.state = "Panic" -> "panicked"
               [] returns /\ last = None -> "returned"
               [] returns -> "feed"
               [] OTHER -> "await_output"
    /\ last_output' = IF returns THEN None ELSE last
    /\ feedback' = IF returns THEN fed_back(feedback, last) ELSE feedback
    /\ ev' = CloneEvent("await_output", feedback.i, returns, r.state,
                        IF returns THEN last ELSE None)
    /\ driven' = logged(driven, feedback.i, r.out)
    /\ UNCHANGED <<prog, outputs, call_outputs, appended, consumed, overflow_checks, alone>>

FeedbackAwaitStepped(a, r, last) ==
    FeedbackAwaitRound(a, r, last,
                       r.state # "Panic" /\ ~await_continues(r.state, last))

\* one round of the loop of await_output on amps[i]
FeedbackAwaitStep ==
    /\ pc = "await_output"
    /\ FeedbackAwaitStepped(feedback.i + 1,
                            step(deref(heap, vm[feedback.i + 1]), overflow_checks),
                            await_closure(last_output,
                                step(deref(heap, vm[feedback.i + 1]), overflow_checks).out))

FeedbackNext ==
    \/ FeedbackSeed
    \/ FeedbackFeed
    \/ FeedbackAwaitStep

FeedbackSpec == FeedbackInit /\ [][FeedbackNext]_vars

----------------------------------------------------------------------------
(* Vocabulary of the properties *)

\* The last action made a call of step (as step, or as a round of run or of
\* await_output); ev.before is the Program that call started from
MadeStep == ev.op \in {"step", "run", "await_output"} /\ ev.state # "none"

\* The kind of the instruction at the pointer of `self`, "none" when there is
\* no word there or it does not decode
KindAt(self) ==
    IF current_instruction(self) = None THEN "none"
    ELSE current_instruction(self)[1].kind

\* Cell a of a memory, 0 beyond its end (and for an a that is no address)
Cell(memory, a) == IF 0 <= a /\ a < Len(memory) THEN memory[a + 1] ELSE 0

\* The value of the first operand of the instruction at the pointer of `self`:
\* the parameter word itself (Immediate), the cell it addresses (Positional),
\* the cell at relative base + word (Relative)
Operand1(self) ==
    LET word == Cell(self.memory, self.instruction_pointer + 1)
        mode == current_instruction(self)[1].m[1]
    IN  CASE mode = "Immediate" -> word
          [] mode = "Positional" -> Cell(self.memory, word)
          [] mode = "Relative" -> Cell(self.memory, self.relative_base + word)

----------------------------------------------------------------------------
(* C1 *)

\* C1: inputs are consumed strictly FIFO: the k-th Input instruction executed
\* stores the k-th value ever appended to the queue (by read_input or by run),
\* and the queue holds exactly the appended values not yet consumed, in order.
C1_InputsConsumedFifo ==
    /\ Len(consumed) <= Len(appended)
    /\ \A k \in 1..Len(consumed) : consumed[k] = appended[k]
    /\ pc # "panicked" =>
          prog.input_buffer = SubSeq(appended, Len(consumed) + 1, Len(appended))

\* Two different values were appended and two Input instructions have executed
C1_Witness ==
    /\ Len(consumed) = 2
    /\ appended[1] # appended[2]
    /\ MadeStep /\ KindAt(ev.before) = "Input"

----------------------------------------------------------------------------
(* C2 *)

\* C2: a step (alone, or as a round of await_output or of run) at an Input
\* instruction with an empty queue returns, reports AwaitingInput and leaves
\* memory, pointer, relative base and queue as they were.
C2_StarvedInputAwaits ==
    (MadeStep /\ KindAt(ev.before) = "Input" /\ ev.before.input_buffer = << >>)
        => /\ pc # "panicked"
           /\ ev.state = "AwaitingInput"
           /\ prog = ev.before

----------------------------------------------------------------------------
(* C3 *)

\* C3: step never panics: when the word at the pointer is no valid instruction
\* (or the pointer is beyond the memory) it returns Crashed and leaves memory,
\* pointer, relative base and queue as they were.
C3_DecodeFailureCrashes ==
    (MadeStep /\ KindAt(ev.before) = "none")
        => /\ pc # "panicked"
           /\ ev.state = "Crashed"
           /\ prog = ev.before

----------------------------------------------------------------------------
(* C4 *)

\* The first parameter of the instruction at the pointer of `self` is
\* Positional or Relative and resolves to an address below 0 (every
\* instruction but Halt resolves its first parameter; Input does once it has
\* a value to store)
FirstAddressNegative(self) ==
    /\ KindAt(self) \notin {"none", "Halt"}
    /\ KindAt(self) = "Input" => self.input_buffer # << >>
    /\ current_instruction(self)[1].m[1] # "Immediate"
    /\ in_bounds(self.memory, self.instruction_pointer + 1)
    /\ read_idx(self, self.instruction_pointer + 1, current_instruction(self)[1].m[1]) < 0

\* C4: a step whose parameter resolves to a negative address returns Crashed
\* and neither writes nor resizes the memory.
C4_NegativeAddressCrashes ==
    (MadeStep /\ FirstAddressNegative(ev.before))
        => /\ pc # "panicked"
           /\ ev.state = "Crashed"
           /\ prog.memory = ev.before.memory

----------------------------------------------------------------------------
(* C5 *)

\* C5: a step at a Halt instruction returns Done and leaves the pointer, the
\* memory, the relative base and the queue as they were.
C5_HaltLeavesPointer ==
    (MadeStep /\ KindAt(ev.before) = "Halt")
        => /\ ev.state = "Done"
           /\ prog = ev.before

----------------------------------------------------------------------------
(* C6 *)

\* C6: is_terminated returns true exactly when there is a word at the pointer
\* and it decodes as Halt, and it leaves the Program (memory, pointer,
\* relative base, queue) and the driver as they were.
C6_IsTerminatedPeeks ==
    ev.op = "is_terminated"
        => /\ prog = ev.before
           /\ pc = "idle"
           /\ outputs = ev.outs
           /\ ev.ret = Some(/\ in_bounds(prog.memory, prog.instruction_pointer)
                            /\ parse(prog.memory[prog.instruction_pointer + 1])
                                   = Some(Instr("Halt", << >>)))

\* is_terminated has answered true on a machine that has run up to a Halt
C6_Witness ==
    /\ ev.op = "is_terminated"
    /\ ev.ret = Some(TRUE)
    /\ prog.instruction_pointer > 0
    /\ outputs # << >>

----------------------------------------------------------------------------
(* C7 *)

\* C7: await_output steps until the first output or until Done and returns at
\* once: a call executes at most one Output instruction; it returns Some(value)
\* right after that instruction, with the pointer on the instruction that
\* follows it, or None when step reported Done; it never returns while the
\* machine is running and has output nothing, and never steps on after an
\* output or after Done.
C7_AwaitOutputStopsAtFirstEvent ==
    ev.op = "await_output"
        => /\ call_outputs <= 1
           /\ ev.returned
                 => \/ /\ ev.state = "Done"
                       /\ call_outputs = 0
                       /\ ev.ret = None
                    \/ /\ ev.state = "Running"
                       /\ call_outputs = 1
                       /\ KindAt(ev.before) = "Output"
                       /\ outputs = Append(ev.outs, Operand1(ev.before))
                       /\ ev.ret = Some(Operand1(ev.before))
                       /\ prog.instruction_pointer = ev.before.instruction_pointer + 2
           /\ (ev.state = "Done" \/ call_outputs = 1) => (ev.returned /\ pc = "idle")
           /\ (ev.state = "Running" /\ call_outputs = 0) => (~ev.returned /\ pc = "await_output")

\* A second call of await_output has returned the second output of the program
C7_Witness ==
    /\ ev.op = "await_output"
    /\ ev.returned
    /\ ev.ret # None
    /\ Len(outputs) = 2
    /\ call_outputs = 1

----------------------------------------------------------------------------
(* C8 *)

\* C8: every round of run that executes an Output instruction calls on_output
\* once, with the value of the instruction's operand, after the calls made for
\* the earlier outputs; a round that executes another instruction calls it not
\* at all; run goes on after every instruction but Halt, outputs included, and
\* returns only when step reports Done.
C8_RunReportsEveryOutput ==
    (ev.op = "run" /\ ev.state # "none")
        => /\ outputs = IF KindAt(ev.before) = "Output" /\ ev.state # "Panic"
                        THEN Append(ev.outs, Operand1(ev.before))
                        ELSE ev.outs
           /\ ev.returned => ev.state = "Done"
           /\ ev.state = "Running" => (~ev.returned /\ pc = "run")

\* run has returned after two outputs of different values
C8_Witness ==
    /\ ev.op = "run"
    /\ ev.returned
    /\ call_outputs = 2
    /\ Len(outputs) = 2
    /\ outputs[1] # outputs[2]

----------------------------------------------------------------------------
(* C9 *)

\* C9: run returns the value of the last Output instruction the machine has
\* executed, None when it has executed none.
C9_RunReturnsLastOutput ==
    (ev.op = "run" /\ ev.returned)
        => ev.ret = IF outputs = << >> THEN None ELSE Some(outputs[Len(outputs)])

\* run has returned the second of two different outputs
C9_Witness ==
    /\ ev.op = "run"
    /\ ev.returned
    /\ Len(outputs) >= 2
    /\ outputs[Len(outputs)] # outputs[Len(outputs) - 1]
    /\ ev.ret = Some(outputs[Len(outputs)])

----------------------------------------------------------------------------
(* C10 *)

\* C10: read_input(v) returns and only appends v at the tail of the queue:
\* memory, pointer, relative base and return code are as before, the queue is
\* the old queue followed by v, and nothing was executed or output.
C10_ReadInputAppends ==
    ev.op = "read_input"
        => /\ pc = "idle"
           /\ prog.memory = ev.before.memory
           /\ prog.instruction_pointer = ev.before.instruction_pointer
           /\ prog.relative_base = ev.before.relative_base
           /\ prog.return_code = ev.before.return_code
           /\ appended # << >>
           /\ prog.input_buffer = Append(ev.before.input_buffer, appended[Len(appended)])
           /\ outputs = ev.outs

\* read_input has appended a value behind a different one still queued
C10_Witness ==
    /\ ev.op = "read_input"
    /\ Len(prog.input_buffer) = 2
    /\ prog.input_buffer[1] # prog.input_buffer[2]
    /\ ev.before.input_buffer = <<prog.input_buffer[1]>>

----------------------------------------------------------------------------
(* C11 *)

\* The memory, pointer, relative base and queue of a Program value
State4(self) ==
    <<self.memory, self.instruction_pointer, self.relative_base, self.input_buffer>>

\* C11: a clone shares nothing with its source: right after clone() the two
\* instances have equal memory, pointer, relative base and queue, and however
\* the calls of read_input, step and await_output on the two are interleaved,
\* each instance has the memory, pointer, relative base, queue and outputs
\* (and its last step the State) that the calls made on it give an instance
\* that is driven alone.
C11_CloneSharesNothing ==
    /\ ev.op = "clone" =>
          State4(deref(heap, vm["program2"])) = State4(deref(heap, vm["program"]))
    /\ \A i \in DOMAIN vm :
          /\ State4(deref(heap, vm[i])) = State4(alone[i].self)
          /\ driven[i].outs = alone[i].outs
          /\ driven[i].state = alone[i].state

\* Source and clone have both been driven after the clone was made, with
\* different inputs: their memories, queues and outputs differ
C11_Witness ==
    /\ DOMAIN vm = Instances
    /\ ev.op = "await_output" /\ ev.returned
    /\ driven["program"].outs # << >>
    /\ driven["program2"].outs # << >>
    /\ driven["program"].outs # driven["program2"].outs
    /\ deref(heap, vm["program"]).memory # deref(heap, vm["program2"]).memory
    /\ deref(heap, vm["program"]).input_buffer # deref(heap, vm["program2"]).input_buffer

----------------------------------------------------------------------------
(* Vocabulary of the instruction properties: an instruction's parameters as  *)
(* the machine's description gives them, with every cell beyond the end of   *)
(* the memory holding 0.                                                     *)

\* The last action made a call of step that returned
Returned == MadeStep /\ ev.state # "Panic"

\* The number of parameter words of an instruction of this kind
Parameters(kind) ==
    CASE kind \in {"Add", "Mult", "LessThan", "Equals"} -> 3
      [] kind \in {"JumpIfTrue", "JumpIfFalse"} -> 2
      [] kind \in {"Input", "Output", "RelativeBaseAdjust"} -> 1
      [] OTHER -> 0

\* The k-th parameter word of the instruction at the pointer of `self`
Word(self, k) == Cell(self.memory, self.instruction_pointer + k)

\* The mode the instruction at the pointer of `self` carries for its k-th parameter
Mode(self, k) == current_instruction(self)[1].m[k]

\* The address the k-th parameter names (Positional, Relative); for an
\* Immediate parameter, the address of the parameter word
Address(self, k) ==
    CASE Mode(self, k) = "Positional" -> Word(self, k)
      [] Mode(self, k) = "Relative" -> self.relative_base + Word(self, k)
      [] Mode(self, k) = "Immediate" -> self.instruction_pointer + k

\* The value of the k-th parameter as a source operand
Operand(self, k) ==
    IF Mode(self, k) = "Immediate" THEN Word(self, k)
    ELSE Cell(self.memory, Address(self, k))

\* Whether the instruction at the pointer of `self` takes its jump
Jumps(self) ==
    \/ KindAt(self) = "JumpIfTrue" /\ Operand(self, 1) # 0
    \/ KindAt(self) = "JumpIfFalse" /\ Operand(self, 1) = 0

\* The parameters the instruction at the pointer of `self` resolves: all of
\* them, but the target of a jump only when the jump is taken
Resolved(self) ==
    IF KindAt(self) \in {"JumpIfTrue", "JumpIfFalse"} /\ ~Jumps(self)
    THEN {1}
    ELSE 1..Parameters(KindAt(self))

\* The write-target parameter of the instruction at the pointer of `self`, 0
\* when it has none
Target(self) ==
    CASE KindAt(self) \in {"Add", "Mult", "LessThan", "Equals"} -> 3
      [] KindAt(self) = "Input" -> 1
      [] OTHER -> 0

\* The cells of `after` and `before` agree everywhere but at the addresses in
\* `except`, cells beyond the end counting as 0
SameCells(before, after, except) ==
    \A a \in 0..(Len(before) + Len(after)) :
        a \notin except => Cell(after, a) = Cell(before, a)

----------------------------------------------------------------------------
(* C12 *)

\* An instruction that executes (any but Halt, and Input only with a value
\* queued) and names no address below 0
NamesNoNegativeAddress(self) ==
    /\ KindAt(self) \notin {"none", "Halt"}
    /\ KindAt(self) = "Input" => self.input_buffer # << >>
    /\ \A k \in 1..Parameters(KindAt(self)) : Address(self, k) >= 0

\* C12: a read or write at an address at or beyond the end of the memory never
\* fails, for every cell the instruction touches, its own parameter words
\* included: the step returns, the memory then reaches up to and including
\* every address it resolved, the cells that existed keep their values and the
\* new ones are 0 (but the cell written), and an Output of a cell beyond the
\* end reports 0.
C12_GrowOnDemand ==
    (MadeStep /\ NamesNoNegativeAddress(ev.before))
        => /\ pc # "panicked"
           /\ Len(prog.memory) >= Len(ev.before.memory)
           /\ \A k \in Resolved(ev.before) :
                 Address(ev.before, k) < Len(prog.memory)
           /\ SameCells(ev.before.memory, prog.memory,
                        IF Target(ev.before) = 0 THEN {}
                        ELSE {Address(ev.before, Target(ev.before))})
           /\ (KindAt(ev.before) = "Output"
                  /\ Address(ev.before, 1) >= Len(ev.before.memory))
                 => outputs = Append(ev.outs, 0)

----------------------------------------------------------------------------
(* C13 *)

Arithmetic == {"Add", "Mult", "LessThan", "Equals"}

\* A valid instruction of four words at the pointer of `self`: its four words
\* are in the memory and decode, its write target is Positional or Relative,
\* and it names no address below 0
ValidFourWords(self) ==
    /\ KindAt(self) \in Arithmetic
    /\ in_bounds(self.memory, self.instruction_pointer + 3)
    /\ Mode(self, 3) # "Immediate"
    /\ \A k \in 1..3 : Address(self, k) >= 0

\* What the instruction at the pointer of `self` computes of its two source operands
Result(self) ==
    CASE KindAt(self) = "Add" -> Operand(self, 1) + Operand(self, 2)
      [] KindAt(self) = "Mult" -> Operand(self, 1) * Operand(self, 2)
      [] KindAt(self) = "LessThan" ->
             IF Operand(self, 1) < Operand(self, 2) THEN 1 ELSE 0
      [] KindAt(self) = "Equals" ->
             IF Operand(self, 1) = Operand(self, 2) THEN 1 ELSE 0

\* C13: one step of a valid Add, Mult, LessThan or Equals, whatever the modes
\* of its parameters and wherever its write address lies (inside the
\* instruction too), returns Running, stores the sum, product or comparison of
\* its two source operands at the write address, changes no other cell, leaves
\* relative base and queue as they were and moves the pointer on by 4.
C13_ArithmeticFrame ==
    (MadeStep /\ ValidFourWords(ev.before))
        => /\ ev.state = "Running"
           /\ Cell(prog.memory, Address(ev.before, 3)) = Result(ev.before)
           /\ SameCells(ev.before.memory, prog.memory, {Address(ev.before, 3)})
           /\ prog.relative_base = ev.before.relative_base
           /\ prog.input_buffer = ev.before.input_buffer
           /\ prog.instruction_pointer = ev.before.instruction_pointer + 4

\* A Mult with a Relative and an Immediate source has overwritten a word of
\* itself, named by a Relative target, with a queue that is not empty
C13_Witness ==
    /\ MadeStep /\ ValidFourWords(ev.before)
    /\ KindAt(ev.before) = "Mult"
    /\ Mode(ev.before, 1) = "Relative"
    /\ Mode(ev.before, 2) = "Immediate"
    /\ Mode(ev.before, 3) = "Relative"
    /\ ev.before.relative_base # 0
    /\ Address(ev.before, 3) \in
           ev.before.instruction_pointer..(ev.before.instruction_pointer + 3)
    /\ Cell(prog.memory, Address(ev.before, 3))
           # Cell(ev.before.memory, Address(ev.before, 3))
    /\ prog.input_buffer # << >>

----------------------------------------------------------------------------
(* C14 *)

\* A valid jump instruction at the pointer of `self`: its three words are in
\* the memory and decode, the parameters it resolves name no address below 0,
\* and the target of a jump it takes is an address
ValidJump(self) ==
    /\ KindAt(self) \in {"JumpIfTrue", "JumpIfFalse"}
    /\ in_bounds(self.memory, self.instruction_pointer + 2)
    /\ \A k \in Resolved(self) : Address(self, k) >= 0
    /\ Jumps(self) => Operand(self, 2) >= 0

\* C14: JumpIfTrue with a nonzero condition, and JumpIfFalse with a zero
\* condition, set the pointer to the value of the target operand and advance
\* no further; with the other condition they move the pointer on by 3; either
\* way the step returns Running and the cells of the memory, the relative base
\* and the queue are as they were.
C14_JumpSetsPointer ==
    (MadeStep /\ ValidJump(ev.before))
        => /\ ev.state = "Running"
           /\ prog.instruction_pointer =
                 IF Jumps(ev.before) THEN Operand(ev.before, 2)
                 ELSE ev.before.instruction_pointer + 3
           /\ SameCells(ev.before.memory, prog.memory, {})
           /\ prog.relative_base = ev.before.relative_base
           /\ prog.input_buffer = ev.before.input_buffer

\* A JumpIfFalse has jumped on a zero read through a Relative condition, to a
\* target read from the memory that is neither the instruction itself nor the
\* one after it
C14_Witness ==
    /\ MadeStep /\ ValidJump(ev.before)
    /\ KindAt(ev.before) = "JumpIfFalse"
    /\ Mode(ev.before, 1) = "Relative"
    /\ Mode(ev.before, 2) = "Positional"
    /\ Operand(ev.before, 1) = 0
    /\ prog.instruction_pointer = Operand(ev.before, 2)
    /\ prog.instruction_pointer \notin
           {ev.before.instruction_pointer, ev.before.instruction_pointer + 3}

\* A JumpIfTrue has not jumped, on a zero condition
C14_WitnessNoJump ==
    /\ MadeStep /\ ValidJump(ev.before)
    /\ KindAt(ev.before) = "JumpIfTrue"
    /\ Operand(ev.before, 1) = 0
    /\ prog.instruction_pointer = ev.before.instruction_pointer + 3

----------------------------------------------------------------------------
(* C15 *)

\* C15: a LessThan or Equals that executes writes 1 when the comparison of its
\* two operands holds and 0 when it does not, and no other value, whatever the
\* signs of the operands.
C15_ComparisonWritesBit ==
    (MadeStep /\ ValidFourWords(ev.before)
              /\ KindAt(ev.before) \in {"LessThan", "Equals"})
        => /\ ev.state = "Running"
           /\ Cell(prog.memory, Address(ev.before, 3)) \in {0, 1}
           /\ KindAt(ev.before) = "LessThan" =>
                 (Cell(prog.memory, Address(ev.before, 3)) = 1
                     <=> Operand(ev.before, 1) < Operand(ev.before, 2))
           /\ KindAt(ev.before) = "Equals" =>
                 (Cell(prog.memory, Address(ev.before, 3)) = 1
                     <=> Operand(ev.before, 1) = Operand(ev.before, 2))

\* A LessThan has compared a negative operand with a larger one that differs
\* from it by more than 1, and has written 1 over a cell that held another value
C15_Witness ==
    /\ MadeStep /\ ValidFourWords(ev.before)
    /\ KindAt(ev.before) = "LessThan"
    /\ Operand(ev.before, 1) < 0
    /\ Operand(ev.before, 2) > Operand(ev.before, 1) + 1
    /\ Cell(prog.memory, Address(ev.before, 3)) = 1
    /\ Cell(ev.before.memory, Address(ev.before, 3)) # 1

\* An Equals has compared two different operands, one of them negative, and
\* has written 0 over a cell that held another value
C15_WitnessEquals ==
    /\ MadeStep /\ ValidFourWords(ev.before)
    /\ KindAt(ev.before) = "Equals"
    /\ Operand(ev.before, 2) < 0
    /\ Operand(ev.before, 1) # Operand(ev.before, 2)
    /\ Cell(prog.memory, Address(ev.before, 3)) = 0
    /\ Cell(ev.before.memory, Address(ev.before, 3)) # 0

----------------------------------------------------------------------------
(* C16 *)

\* A valid instruction of two words at the pointer of `self`: both words are
\* in the memory and decode, the parameter names no address below 0, and an
\* Input has a value queued and a target that is not Immediate
ValidTwoWords(self) ==
    /\ KindAt(self) \in {"Input", "Output", "RelativeBaseAdjust"}
    /\ in_bounds(self.memory, self.instruction_pointer + 1)
    /\ Address(self, 1) >= 0
    /\ KindAt(self) = "Input" =>
          (self.input_buffer # << >> /\ Mode(self, 1) # "Immediate")

\* The value a source parameter with raw word K yields under relative base B
Read(memory, B, K, mode) ==
    CASE mode = "Relative" -> Cell(memory, B + K)
      [] mode = "Positional" -> Cell(memory, K)
      [] mode = "Immediate" -> K

\* The address a write-target parameter with raw word K names under relative base B
WriteAddress(B, K, mode) ==
    CASE mode = "Relative" -> B + K
      [] mode = "Positional" -> K

\* C16: with relative base B a Relative parameter of raw word K reads cell
\* B + K and, as a write target, names cell B + K; a Positional parameter
\* uses cell K; an Immediate parameter yields K itself.  Output reports the
\* value read, the relative-base adjustment adds it to B, Input stores the
\* value it consumes at the write address and nowhere else, and the
\* four-word instructions store the result of the two values read at the
\* write address of their third parameter.
C16_ModesResolve ==
    /\ (MadeStep /\ ValidTwoWords(ev.before)) =>
          /\ ev.state = "Running"
          /\ KindAt(ev.before) = "Output" =>
                outputs = Append(ev.outs,
                                 Read(ev.before.memory, ev.before.relative_base,
                                      Word(ev.before, 1), Mode(ev.before, 1)))
          /\ KindAt(ev.before) = "RelativeBaseAdjust" =>
                prog.relative_base = ev.before.relative_base
                    + Read(ev.before.memory, ev.before.relative_base,
                           Word(ev.before, 1), Mode(ev.before, 1))
          /\ KindAt(ev.before) = "Input" =>
                /\ Cell(prog.memory,
                        WriteAddress(ev.before.relative_base, Word(ev.before, 1),
                                     Mode(ev.before, 1)))
                       = Head(ev.before.input_buffer)
                /\ SameCells(ev.before.memory, prog.memory,
                             {WriteAddress(ev.before.relative_base, Word(ev.before, 1),
                                           Mode(ev.before, 1))})
    /\ (MadeStep /\ ValidFourWords(ev.before) /\ KindAt(ev.before) = "Add") =>
          Cell(prog.memory,
               WriteAddress(ev.before.relative_base, Word(ev.before, 3), Mode(ev.before, 3)))
              = Read(ev.before.memory, ev.before.relative_base,
                     Word(ev.before, 1), Mode(ev.before, 1))
                + Read(ev.before.memory, ev.before.relative_base,
                       Word(ev.before, 2), Mode(ev.before, 2))

\* An Input has stored its value through a Relative target under a relative
\* base that is not 0: cell B + K holds the value and cell K is as it was
C16_Witness ==
    /\ MadeStep /\ ValidTwoWords(ev.before)
    /\ KindAt(ev.before) = "Input"
    /\ Mode(ev.before, 1) = "Relative"
    /\ ev.before.relative_base # 0
    /\ Cell(prog.memory, ev.before.relative_base + Word(ev.before, 1))
           = Head(ev.before.input_buffer)
    /\ Cell(ev.before.memory, ev.before.relative_base + Word(ev.before, 1))
           # Head(ev.before.input_buffer)
    /\ Cell(prog.memory, Word(ev.before, 1)) # Head(ev.before.input_buffer)

\* An Output has reported a value read through a Relative parameter under a
\* relative base that is not 0; neither cell K nor K itself is that value
C16_WitnessRead ==
    /\ MadeStep /\ ValidTwoWords(ev.before)
    /\ KindAt(ev.before) = "Output"
    /\ Mode(ev.before, 1) = "Relative"
    /\ ev.before.relative_base # 0
    /\ outputs # << >>
    /\ outputs[Len(outputs)] # Word(ev.before, 1)
    /\ outputs[Len(outputs)] # Cell(ev.before.memory, Word(ev.before, 1))

----------------------------------------------------------------------------
(* C17 *)

\* The word at the pointer of `self`, -1 when the pointer is beyond the memory
WordAt(self) ==
    IF in_bounds(self.memory, self.instruction_pointer)
    THEN self.memory[self.instruction_pointer + 1]
    ELSE -1

\* The opcode table: the kind the two low decimal digits select, "none" for
\* the values that select none
OpcodeKind(digits) ==
    CASE digits = 1 -> "Add"
      [] digits = 2 -> "Mult"
      [] digits = 3 -> "Input"
      [] digits = 4 -> "Output"
      [] digits = 5 -> "JumpIfTrue"
      [] digits = 6 -> "JumpIfFalse"
      [] digits = 7 -> "LessThan"
      [] digits = 8 -> "Equals"
      [] digits = 9 -> "RelativeBaseAdjust"
      [] digits = 99 -> "Halt"
      [] OTHER -> "none"

\* The i-th decimal digit of a non-negative word above its two opcode digits
ModeDigit(word, i) ==
    CASE i = 1 -> (word \div 100) % 10
      [] i = 2 -> (word \div 1000) % 10
      [] i = 3 -> (word \div 10000) % 10

\* Every mode digit of the parameters the word's opcode takes is 0, 1 or 2
ModeDigitsDecode(word) ==
    \A i \in 1..Parameters(OpcodeKind(word % 100)) : ModeDigit(word, i) \in {0, 1, 2}

\* C17: the kind step decodes from a non-negative word at the pointer is the
\* one its two low decimal digits select (1 Add, 2 Mult, 3 Input, 4 Output,
\* 5 JumpIfTrue, 6 JumpIfFalse, 7 LessThan, 8 Equals, 9 RelativeBaseAdjust,
\* 99 Halt): a word that decodes decodes to that kind, a word whose mode
\* digits decode does decode, and every other value of the two digits (0,
\* 10..98) is a decode failure, on which step does not return.
C17_OpcodeFromLowDigits ==
    (MadeStep /\ WordAt(ev.before) >= 0)
        => /\ KindAt(ev.before) \in {OpcodeKind(WordAt(ev.before) % 100), "none"}
           /\ ModeDigitsDecode(WordAt(ev.before))
                 => KindAt(ev.before) = OpcodeKind(WordAt(ev.before) % 100)
           /\ OpcodeKind(WordAt(ev.before) % 100) = "none"
                 => (KindAt(ev.before) = "none" /\ ev.state = "Panic")
           /\ (ev.state = "Done") <=> (WordAt(ev.before) % 100 = 99)

\* step has decoded a word of five digits as Equals and executed it
C17_Witness ==
    /\ MadeStep
    /\ WordAt(ev.before) >= 10000
    /\ WordAt(ev.before) % 100 = 8
    /\ KindAt(ev.before) = "Equals"
    /\ ev.state = "Running"

\* step has failed to decode a word whose two low digits are above 9
C17_WitnessFailure ==
    /\ MadeStep
    /\ WordAt(ev.before) % 100 \in 10..98
    /\ KindAt(ev.before) = "none"
    /\ ev.state = "Panic"

----------------------------------------------------------------------------
(* C18 *)

\* The mode a mode digit stands for
ModeOfDigit(d) ==
    CASE d = 0 -> "Positional"
      [] d = 1 -> "Immediate"
      [] d = 2 -> "Relative"
      [] OTHER -> "none"

\* C18: for a non-negative word with a valid opcode, the mode decoded for
\* parameter i is the one the i-th decimal digit above the two opcode digits
\* stands for (0 Positional, 1 Immediate, 2 Relative; a digit the word does
\* not have is 0), and the word fails to decode exactly when the digit of one
\* of the opcode's parameters is 3..9.
C18_ModeFromDigit ==
    (MadeStep /\ WordAt(ev.before) >= 0
              /\ OpcodeKind(WordAt(ev.before) % 100) # "none")
        => /\ (KindAt(ev.before) = "none") <=> ~ModeDigitsDecode(WordAt(ev.before))
           /\ KindAt(ev.before) # "none" =>
                 /\ Len(current_instruction(ev.before)[1].m)
                        = Parameters(KindAt(ev.before))
                 /\ \A i \in 1..Parameters(KindAt(ev.before)) :
                        Mode(ev.before, i) = ModeOfDigit(ModeDigit(WordAt(ev.before), i))

\* step has decoded a word of four digits, the digit of the third parameter
\* absent, with three different modes
C18_Witness ==
    /\ MadeStep
    /\ WordAt(ev.before) \in 1000..9999
    /\ KindAt(ev.before) \in Arithmetic
    /\ Mode(ev.before, 1) = "Relative"
    /\ Mode(ev.before, 2) = "Immediate"
    /\ Mode(ev.before, 3) = "Positional"

\* step has failed to decode a jump whose second mode digit is above 2
C18_WitnessFailure ==
    /\ MadeStep
    /\ WordAt(ev.before) % 100 = 5
    /\ ModeDigit(WordAt(ev.before), 1) = 1
    /\ ModeDigit(WordAt(ev.before), 2) = 7
    /\ KindAt(ev.before) = "none"
    /\ ev.state = "Panic"

----------------------------------------------------------------------------
(* C19 *)

\* The instruction at the pointer of `self` executes and has a write-target
\* parameter whose mode is Immediate
ImmediateTarget(self) ==
    /\ Target(self) # 0
    /\ Mode(self, Target(self)) = "Immediate"
    /\ KindAt(self) = "Input" => self.input_buffer # << >>
    /\ \A k \in 1..(Target(self) - 1) : Address(self, k) >= 0

\* C19: no step stores a value through a write-target parameter whose mode is
\* Immediate (the third parameter of Add, Mult, LessThan, Equals, the
\* parameter of Input): every cell of the memory, the parameter word
\* included, holds what it held before the step.
C19_ImmediateNeverWritten ==
    (MadeStep /\ ImmediateTarget(ev.before))
        => /\ SameCells(ev.before.memory, prog.memory, {})
           /\ Cell(prog.memory, ev.before.instruction_pointer + Target(ev.before))
                 = Word(ev.before, Target(ev.before))

----------------------------------------------------------------------------
(* C20 *)

\* The machine runs the program of equal_test (its instructions are cells
\* 0..8, which the program never writes) and run was called with one input
EqualTestRun ==
    /\ ev.op = "run"
    /\ Len(prog.memory) >= 9
    /\ SubSeq(prog.memory, 1, 9) = SubSeq(equal_test_code, 1, 9)
    /\ Len(appended) = 1
    /\ ev.before.instruction_pointer <= 8

\* C20: run of 3,9,8,9,10,9,4,9,99,-1,8 with one input v does not fail, moves
\* the pointer forward through the four instructions and returns on the Halt
\* at cell 8 with exactly one output made and returned: 1 when v = 8, 0
\* otherwise.
C20_EqualTest ==
    EqualTestRun
        => /\ pc # "panicked"
           /\ ~ev.returned =>
                 /\ prog.instruction_pointer \in {0, 2, 6, 8}
                 /\ ev.state \in {"none", "Running"}
           /\ ev.returned =>
                 /\ ev.state = "Done"
                 /\ ev.before.instruction_pointer = 8
                 /\ outputs = <<IF appended[1] = 8 THEN 1 ELSE 0>>
                 /\ call_outputs = 1
                 /\ ev.ret = Some(IF appended[1] = 8 THEN 1 ELSE 0)

\* run(&[8]) has returned Some(1) after the one output 1
C20_Witness ==
    /\ EqualTestRun
    /\ ev.returned
    /\ appended = <<8>>
    /\ outputs = <<1>>
    /\ ev.ret = Some(1)

\* run(&[17]) has returned Some(0) after the one output 0
C20_WitnessSeventeen ==
    /\ EqualTestRun
    /\ ev.returned
    /\ appended = <<17>>
    /\ outputs = <<0>>
    /\ ev.ret = Some(0)

----------------------------------------------------------------------------
(* C21 *)

\* C21: with the phase settings 9,8,7,6,5 the five clones of the program of
\* amp_stack_1_feedback, fed round-robin from 0, never fail, and
\* amp_stack_feeback returns when await_output on the first amplifier reports
\* no output (its step reported Done), with the final signal 139629729.
C21_FeedbackSignal ==
    (pc \in {"feed", "await_output", "returned", "panicked"}
        /\ feedback.perm = <<4, 3, 2, 1, 0>>)
        => /\ pc # "panicked"
           /\ feedback.returned # None =>
                 /\ pc = "returned"
                 /\ feedback.returned = Some(139629729)
                 /\ feedback.i = 0
                 /\ ev.state = "Done"
           /\ pc = "returned" => feedback.returned # None

\* amp_stack_feeback has returned the signal for the phase settings 9,8,7,6,5
C21_Witness ==
    /\ pc = "returned"
    /\ feedback.perm = <<4, 3, 2, 1, 0>>
    /\ feedback.returned = Some(139629729)
    /\ Len(vm) = 5

----------------------------------------------------------------------------
(* C22 *)

\* run was called with no input on the program of quine_test
QuineRun ==
    /\ ev.op = "run"
    /\ appended = << >>
    /\ SubSeq(prog.memory, 1, 16) = quine_code

\* C22: run of 109,1,204,-1,1001,100,1,100,1008,100,16,101,1006,101,0,99 with
\* no input does not fail, outputs the words of the program in order, one
\* more per round of its loop, and returns on the Halt at cell 15 once it has
\* output all sixteen.
C22_QuineOutputsItself ==
    QuineRun
        => /\ pc # "panicked"
           /\ Len(outputs) <= 16
           /\ outputs = SubSeq(quine_code, 1, Len(outputs))
           /\ call_outputs = Len(outputs)
           /\ ev.returned <=> (ev.state = "Done")
           /\ ev.returned =>
                 /\ outputs = quine_code
                 /\ ev.before.instruction_pointer = 15
                 /\ ev.ret = Some(99)

\* run(&[]) has returned after the sixteen outputs
C22_Witness ==
    /\ QuineRun
    /\ ev.returned
    /\ pc = "idle"
    /\ outputs = quine_code
    /\ prog.relative_base = 16

----------------------------------------------------------------------------
(* C23 *)

\* Whether two i64 values, each an integer or a Wide, are the same value
SameValue(v, w) == ToString(v) = ToString(w)

\* The sum of two magnitudes, carry c coming in
RECURSIVE magnitude_sum(_, _, _)
magnitude_sum(x, y, c) ==
    IF x = << >> /\ y = << >> THEN (IF c = 0 THEN << >> ELSE <<c>>)
    ELSE LET d == (IF x = << >> THEN 0 ELSE Head(x)) + (IF y = << >> THEN 0 ELSE Head(y)) + c
         IN  <<d % LimbBase>>
                 \o magnitude_sum(IF x = << >> THEN x ELSE Tail(x),
                                  IF y = << >> THEN y ELSE Tail(y), d \div LimbBase)

\* The magnitude x taken d times, 0 <= d <= 10, carry c coming in
RECURSIVE scaled(_, _, _)
scaled(x, d, c) ==
    IF x = << >> THEN (IF c = 0 THEN << >> ELSE <<c>>)
    ELSE <<(Head(x) * d + c) % LimbBase>> \o scaled(Tail(x), d, (Head(x) * d + c) \div LimbBase)

\* The magnitude x taken n times, by the decimal digits of n:
\* n * x = 10 * ((n div 10) * x) + (n mod 10) * x
RECURSIVE times(_, _)
times(n, x) ==
    IF n = 0 THEN << >>
    ELSE magnitude_sum(scaled(x, n % 10, 0), scaled(times(n \div 10, x), 10, 0), 0)

\* The mathematical product of two integers as an i64 (it is within the range)
ExactProduct(a, b) ==
    i64_of((a < 0) # (b < 0), significant(times(Abs(a), significant(narrow_limbs(Abs(b))))))

\* The number of decimal digits of a limb
limb_digits(d) == IF d >= 1000 THEN 4 ELSE IF d >= 100 THEN 3 ELSE IF d >= 10 THEN 2 ELSE 1

\* The number of decimal digits of the magnitude of a Wide
decimal_digits(w) == 4 * (Len(w.limbs) - 1) + limb_digits(w.limbs[Len(w.limbs)])

\* run was called with no input on a program of long_test and has returned
LongRunReturned ==
    /\ ev.op = "run"
    /\ ev.returned
    /\ appended = << >>
    /\ prog.memory[1] \in {1102, 104}

\* C23: run of 1102,a,b,7,4,7,99,0 makes one output, the exact product a * b,
\* also where it is beyond 32 bits: for a = b = 34915192 the output is
\* 1219070632396864, a number of 16 digits. Run of 104,w,99 makes one output,
\* the word w unchanged: 1125899906842624 for w = 1125899906842624.
C23_LargeValuesExact ==
    /\ (ev.op = "run" /\ prog.memory[1] \in {1102, 104}) => pc # "panicked"
    /\ LongRunReturned =>
          /\ Len(outputs) = 1
          /\ SameValue(ev.ret, Some(outputs[1]))
          /\ prog.memory[1] = 1102 =>
                /\ SameValue(outputs[1], ExactProduct(prog.memory[2], prog.memory[3]))
                /\ SameValue(prog.memory[8], outputs[1])
                /\ (prog.memory[2] = 34915192 /\ prog.memory[3] = 34915192) =>
                      /\ SameValue(outputs[1], Wide(FALSE, <<6864, 3239, 706, 1219>>))
                      /\ decimal_digits(outputs[1]) = 16
          /\ prog.memory[1] = 104 =>
                /\ SameValue(outputs[1], prog.memory[2])
                /\ SameValue(ev.before.memory[2], Wide(FALSE, <<2624, 684, 8999, 1125>>)) =>
                      SameValue(outputs[1], Wide(FALSE, <<2624, 684, 8999, 1125>>))

\* run(&[]) of 1102,34915192,34915192,7,4,7,99,0 has returned after the
\* output 1219070632396864
C23_Witness ==
    /\ LongRunReturned
    /\ prog.memory[1] = 1102
    /\ prog.memory[2] = 34915192
    /\ prog.memory[3] = 34915192
    /\ SameValue(outputs, <<Wide(FALSE, <<6864, 3239, 706, 1219>>)>>)

\* run(&[]) of 104,1125899906842624,99 has returned after the output
\* 1125899906842624
C23_WitnessLiteral ==
    /\ LongRunReturned
    /\ prog.memory[1] = 104
    /\ SameValue(outputs, <<Wide(FALSE, <<2624, 684, 8999, 1125>>)>>)

----------------------------------------------------------------------------
(* C24 *)

\* The machine holds the program of longer_test: the program writes cells 20
\* and 21 only, its instructions are the other cells
LongerTest ==
    /\ Len(prog.memory) = 47
    /\ \A a \in (0..46) \ {20, 21} : Cell(prog.memory, a) = longer_test_code[a + 1]

\* The first output the program of longer_test makes for the input v
LongerTestOutput(v) == IF v < 8 THEN 999 ELSE IF v = 8 THEN 1000 ELSE 1001

\* C24: the program of longer_test, given an input v before it is stepped,
\* does not fail before its first output, and its first output is 999 when
\* v < 8, 1000 when v = 8 and 1001 when v > 8; the only steps that fail are
\* the first one when no input was queued and the one after the Halt.
C24_LongerTest ==
    LongerTest
        => /\ pc = "panicked" =>
                 \/ ev.before.instruction_pointer = 0 /\ ev.before.input_buffer = << >>
                 \/ ev.before.instruction_pointer = 47 /\ Len(outputs) = 1
           /\ Len(outputs) <= 1
           /\ outputs # << >> =>
                 /\ consumed = <<appended[1]>>
                 /\ outputs[1] = LongerTestOutput(appended[1])

\* read_input(-3), then steps up to the output 999
C24_Witness ==
    /\ LongerTest
    /\ appended = <<-3>>
    /\ ev.op = "step"
    /\ Len(ev.outs) = 0
    /\ outputs = <<999>>

\* read_input(8), then steps up to the output 1000
C24_WitnessEight ==
    /\ LongerTest
    /\ appended = <<8>>
    /\ ev.op = "step"
    /\ Len(ev.outs) = 0
    /\ outputs = <<1000>>

\* read_input(88), then steps up to the output 1001
C24_WitnessGreater ==
    /\ LongerTest
    /\ appended = <<88>>
    /\ ev.op = "step"
    /\ Len(ev.outs) = 0
    /\ outputs = <<1001>>

----------------------------------------------------------------------------
(* C25 *)

\* C25: a step at an Output instruction that returns has passed on the value
\* of its operand, advanced the pointer by 2 and reports OutputAwaitingInput
\* when the instruction at the new pointer is an Input instruction, Output
\* otherwise.
C25_OutputReportsLookahead ==
    (MadeStep /\ KindAt(ev.before) = "Output" /\ ev.state # "Panic")
        => /\ outputs = Append(ev.outs, Operand1(ev.before))
           /\ prog.instruction_pointer = ev.before.instruction_pointer + 2
           /\ ev.state = IF KindAt(prog) = "Input" THEN "OutputAwaitingInput" ELSE "Output"

----------------------------------------------------------------------------
(* C26 *)

\* The positions at which a token of the line starts: the first position and
\* the one after every comma
TokenStarts(line) == {1} \cup {i + 1 : i \in {j \in 1..Len(line) : line[j] = ","}}

\* The token that starts at position p: the characters up to the next comma
\* or the end of the line
TokenAt(line, p) ==
    LET commas == {j \in p..Len(line) : line[j] = ","}
        last == IF commas = {} THEN Len(line) ELSE (CHOOSE j \in commas : \A k \in commas : j <= k) - 1
    IN  SubSeq(line, p, last)

\* The digits of a token that is digits after an optional sign of `signs`;
\* << >> when the token is not of that form
DigitsOf(tok, signs) ==
    LET body == IF tok # << >> /\ tok[1] \in signs THEN Tail(tok) ELSE tok
    IN  IF \A i \in 1..Len(body) : body[i] \in Digits THEN body ELSE << >>

\* The digits without the leading zeros
RECURSIVE NoLeadingZeros(_)
NoLeadingZeros(ds) == IF ds # << >> /\ ds[1] = "0" THEN NoLeadingZeros(Tail(ds)) ELSE ds

\* Whether the number of digits x is greater than that of digits y of the
\* same length
RECURSIVE DigitsGreater(_, _)
DigitsGreater(x, y) ==
    IF x = << >> THEN FALSE
    ELSE IF to_digit(Head(x)) # to_digit(Head(y)) THEN to_digit(Head(x)) > to_digit(Head(y))
    ELSE DigitsGreater(Tail(x), Tail(y))

\* The digits of 2^63 - 1 = i64::MAX and of 2^63 = -i64::MIN
MaxDigits == <<"9","2","2","3","3","7","2","0","3","6","8","5","4","7","7","5","8","0","7">>
MinDigits == <<"9","2","2","3","3","7","2","0","3","6","8","5","4","7","7","5","8","0","8">>

\* Whether the number of the digits, negated when neg, is an i64
InRange(ds, neg) ==
    \/ Len(NoLeadingZeros(ds)) < 19
    \/ /\ Len(NoLeadingZeros(ds)) = 19
       /\ ~DigitsGreater(NoLeadingZeros(ds), IF neg THEN MinDigits ELSE MaxDigits)

\* The number of at most four digits
RECURSIVE GroupValue(_)
GroupValue(ds) ==
    IF ds = << >> THEN 0 ELSE to_digit(ds[Len(ds)]) + 10 * GroupValue(SubSeq(ds, 1, Len(ds) - 1))

\* The number of the digits in base 10000: its limbs are the groups of four
\* digits from the right
RECURSIVE GroupLimbs(_)
GroupLimbs(ds) ==
    IF Len(ds) <= 4 THEN (IF GroupValue(ds) = 0 THEN << >> ELSE <<GroupValue(ds)>>)
    ELSE <<GroupValue(SubSeq(ds, Len(ds) - 3, Len(ds)))>> \o GroupLimbs(SubSeq(ds, 1, Len(ds) - 4))

\* The i64 a token of digits and sign denotes
TokenValue(tok, signs) ==
    i64_of(tok[1] = "-", GroupLimbs(NoLeadingZeros(DigitsOf(tok, signs))))

\* The values of the tokens from position p on that are an integer with an
\* optional sign of `signs` (and within the i64 range when `ranged`), in order
RECURSIVE Kept(_, _, _, _)
Kept(line, p, signs, ranged) ==
    IF p > Len(line) + 1 THEN << >>
    ELSE (IF /\ p \in TokenStarts(line)
             /\ DigitsOf(TokenAt(line, p), signs) # << >>
             /\ ranged => InRange(DigitsOf(TokenAt(line, p), signs), TokenAt(line, p)[1] = "-")
          THEN <<TokenValue(TokenAt(line, p), signs)>>
          ELSE << >>)
         \o Kept(line, p + 1, signs, ranged)

\* from_str has returned the Program of ev.line
Parsed == pc = "idle" /\ ev.op = "from_str"

\* C26 as claimed: the memory from_str builds is the sequence of the values of
\* the tokens that are decimal digits after an optional '-', in the order of
\* the line, every other token left out; the pointer and the relative base
\* are 0 and the input queue is empty.
C26_WellFormedTokensKept ==
    Parsed
        => /\ SameValue(prog.memory, Kept(ev.line, 1, {"-"}, FALSE))
           /\ prog.instruction_pointer = 0
           /\ prog.relative_base = 0
           /\ prog.input_buffer = << >>

\* C26 as amended: the same with the tokens that are decimal digits after an
\* optional '-' or '+' and whose value is within the i64 range.
C26_ParsedTokensKept ==
    Parsed
        => /\ SameValue(prog.memory, Kept(ev.line, 1, {"-", "+"}, TRUE))
           /\ prog.instruction_pointer = 0
           /\ prog.relative_base = 0
           /\ prog.input_buffer = << >>
           /\ prog.return_code = None

\* from_str("3,x,+4, 5,6\n") has kept 3 and 4 and left out "x", " 5" and "6\n"
C26_Witness ==
    /\ Parsed
    /\ ev.line = <<"3", ",", "x", ",", "+", "4", ",", " ", "5", ",", "6", "\n">>
    /\ prog.memory = <<3, 4>>

\* from_str("104,1125899906842624,99") has kept the three values
C26_WitnessLong ==
    /\ Parsed
    /\ ev.line = <<"1","0","4",",","1","1","2","5","8","9","9","9","0","6","8","4","2","6","2","4",",","9","9">>
    /\ SameValue(prog.memory, <<104, Wide(FALSE, <<2624, 684, 8999, 1125>>), 99>>)

----------------------------------------------------------------------------
(* C27 *)

\* A valid Input instruction at the pointer of `self`, with a value queued
ValidInput(self) == KindAt(self) = "Input" /\ ValidTwoWords(self)

\* C27: a step at an Input instruction with a non-empty queue and a Positional
\* or Relative target returns; the queue it leaves is the queue it found
\* without the front element, that element is in the cell the target names,
\* every other cell is as it was, the relative base is as it was, the pointer
\* is 2 further, and nothing was output.
C27_InputFrame ==
    (MadeStep /\ ValidInput(ev.before))
        => /\ pc # "panicked"
           /\ ev.state = "Running"
           /\ prog.input_buffer = Tail(ev.before.input_buffer)
           /\ Cell(prog.memory, Address(ev.before, 1)) = Head(ev.before.input_buffer)
           /\ SameCells(ev.before.memory, prog.memory, {Address(ev.before, 1)})
           /\ prog.relative_base = ev.before.relative_base
           /\ prog.instruction_pointer = ev.before.instruction_pointer + 2
           /\ prog.return_code = ev.before.return_code
           /\ outputs = ev.outs

\* An Input with a Relative target took 8 from the queue 8, 0 and left 0
C27_Witness ==
    /\ MadeStep
    /\ ValidInput(ev.before)
    /\ Mode(ev.before, 1) = "Relative"
    /\ ev.before.relative_base # 0
    /\ ev.before.input_buffer = <<8, 0>>
    /\ prog.input_buffer = <<0>>
    /\ Cell(prog.memory, Address(ev.before, 1)) = 8
    /\ Cell(ev.before.memory, Address(ev.before, 1)) # 8

\* An Input with a Positional target stored the value beyond the end of the
\* memory
C27_WitnessPositional ==
    /\ MadeStep
    /\ ValidInput(ev.before)
    /\ Mode(ev.before, 1) = "Positional"
    /\ Address(ev.before, 1) >= Len(ev.before.memory)
    /\ Cell(prog.memory, Address(ev.before, 1)) = 8

----------------------------------------------------------------------------
(* C28 *)

\* C28: the relative base of a Program from_str has just built is 0; a step
\* that returns from a relative-base adjustment leaves it at its value before
\* plus the value of the instruction's operand, with the pointer 2 further; a
\* step that returns from any other instruction, read_input and is_terminated
\* leave it as it was.
C28_RelativeBaseFrame ==
    /\ ev.op = "from_str" => prog.relative_base = 0
    /\ (Returned /\ KindAt(ev.before) = "RelativeBaseAdjust") =>
          /\ prog.relative_base = ev.before.relative_base + Operand(ev.before, 1)
          /\ prog.instruction_pointer = ev.before.instruction_pointer + 2
    /\ (Returned /\ KindAt(ev.before) # "RelativeBaseAdjust") =>
          prog.relative_base = ev.before.relative_base
    /\ ev.op \in {"read_input", "is_terminated"} =>
          prog.relative_base = ev.before.relative_base

\* A relative-base adjustment with a Relative operand of value -3 has taken
\* the base from -3 to -6
C28_Witness ==
    /\ Returned
    /\ KindAt(ev.before) = "RelativeBaseAdjust"
    /\ Mode(ev.before, 1) = "Relative"
    /\ ev.before.relative_base = -3
    /\ Operand(ev.before, 1) = -3
    /\ prog.relative_base = -6

\* is_terminated was called on a Program whose relative base is not 0
C28_WitnessIsTerminated ==
    /\ ev.op = "is_terminated"
    /\ ev.before.relative_base # 0
    /\ prog.relative_base = ev.before.relative_base

\* An Input instruction was executed at a relative base that is not 0
C28_WitnessOther ==
    /\ Returned
    /\ KindAt(ev.before) = "Input"
    /\ ev.before.relative_base # 0
    /\ prog.relative_base = ev.before.relative_base

----------------------------------------------------------------------------
(* C29 *)

\* The mode the digits of the word at the pointer of `self` give parameter k
DigitMode(self, k) == ModeOfDigit(ModeDigit(WordAt(self), k))

\* The value of parameter k of the instruction the word at the pointer encodes
Value(self, k) == Read(self.memory, self.relative_base, Word(self, k), DigitMode(self, k))

\* The cell parameter k of the instruction the word at the pointer encodes names
Dest(self, k) == WriteAddress(self.relative_base, Word(self, k), DigitMode(self, k))

\* What an instruction of kind K computes of the two values x and y
Computes(K, x, y) ==
    CASE K = "Add" -> x + y
      [] K = "Mult" -> x * y
      [] K = "LessThan" -> IF x < y THEN 1 ELSE 0
      [] K = "Equals" -> IF x = y THEN 1 ELSE 0

\* The step from `b` to the present state did what an instruction of kind K
\* with the parameters of the word at the pointer of `b` does
ExecutedAs(K, b) ==
    CASE K = "Halt" -> ev.state = "Done" /\ outputs = ev.outs /\ prog.memory = b.memory
      [] K = "Output" ->
             /\ ev.state = "Running"
             /\ outputs = Append(ev.outs, Value(b, 1))
             /\ prog.instruction_pointer = b.instruction_pointer + 2
      [] K = "Input" ->
             /\ ev.state = "Running"
             /\ outputs = ev.outs
             /\ prog.input_buffer = Tail(b.input_buffer)
             /\ Cell(prog.memory, Dest(b, 1)) = Head(b.input_buffer)
             /\ prog.instruction_pointer = b.instruction_pointer + 2
      [] K = "RelativeBaseAdjust" ->
             /\ ev.state = "Running"
             /\ outputs = ev.outs
             /\ prog.relative_base = b.relative_base + Value(b, 1)
             /\ prog.instruction_pointer = b.instruction_pointer + 2
      [] K \in Arithmetic ->
             /\ ev.state = "Running"
             /\ outputs = ev.outs
             /\ Cell(prog.memory, Dest(b, 3)) = Computes(K, Value(b, 1), Value(b, 2))
             /\ prog.instruction_pointer = b.instruction_pointer + 4
      [] K \in {"JumpIfTrue", "JumpIfFalse"} ->
             /\ ev.state = "Running"
             /\ outputs = ev.outs
             /\ SameCells(b.memory, prog.memory, {})
             /\ prog.instruction_pointer =
                    IF (Value(b, 1) # 0) = (K = "JumpIfTrue")
                    THEN Value(b, 2) ELSE b.instruction_pointer + 3

\* The Program `b` is at cell 0 of a rewriting program for the second time or
\* later: it has output the 7 of the instruction it started with, and cells
\* 2..8 still hold 1101,a,b,0,1105,1,0
Revisits(b) ==
    /\ b.instruction_pointer = 0
    /\ Len(b.memory) >= 9
    /\ Len(ev.outs) >= 1
    /\ ev.outs[1] = 7
    /\ Cell(b.memory, 2) = 1101
    /\ SubSeq(b.memory, 6, 9) = <<0, 1105, 1, 0>>

\* C29: a step decodes the word that is at the pointer when it is made. In a
\* program that has executed the instruction at cell 0, then stored a + b in
\* cell 0, then jumped back, the word at cell 0 is a + b and the step that
\* returns there does what the instruction a + b encodes does, with the
\* modes of its digits: it does not repeat the Output the cell held before.
C29_DecodesCurrentWord ==
    (Returned /\ Revisits(ev.before))
        => /\ WordAt(ev.before) = Cell(ev.before.memory, 3) + Cell(ev.before.memory, 4)
           /\ OpcodeKind(WordAt(ev.before) % 100) # "none"
           /\ ExecutedAs(OpcodeKind(WordAt(ev.before) % 100), ev.before)

\* The word 104 at cell 0 was overwritten with 99 and the step there returned Done
C29_Witness ==
    /\ Returned
    /\ Revisits(ev.before)
    /\ WordAt(ev.before) = 99
    /\ ev.state = "Done"
    /\ outputs = <<7>>

\* The word 104 at cell 0 was overwritten with 201 and the step there added
\* the cell at relative base + 7 (1) and cell 1101 (0) into cell 1, which held 7
C29_WitnessAdd ==
    /\ Returned
    /\ Revisits(ev.before)
    /\ WordAt(ev.before) = 201
    /\ prog.instruction_pointer = 4
    /\ Cell(ev.before.memory, 1) = 7
    /\ Cell(prog.memory, 1) = 1

----------------------------------------------------------------------------
(* C30 *)

\* The Program `self` has a word at its pointer whose two low decimal digits
\* are 99
EndsIn99(self) ==
    /\ in_bounds(self.memory, self.instruction_pointer)
    /\ Abs(WordAt(self)) % 100 = 99

\* C30: step returns Done, and is_terminated returns true, only at a word
\* whose two low decimal digits are 99; at -1 neither does.
C30_HaltOnlyAt99 ==
    /\ (MadeStep /\ ev.state = "Done") => EndsIn99(ev.before)
    /\ (ev.op = "is_terminated" /\ ev.ret = Some(TRUE)) => EndsIn99(ev.before)

----------------------------------------------------------------------------
(* C31 *)

\* The last call made a step at a word 99 that reported Done, and has returned
ReportedDone ==
    /\ Returned
    /\ ev.returned
    /\ ev.state = "Done"
    /\ WordAt(ev.before) = 99

\* The call that follows is is_terminated
ThenIsTerminated == ev'.op = "is_terminated"

\* The call that follows makes a step: step itself, or await_output entered
\* and taken through its first round
ThenSteps == ev'.op \in {"step", "await_output"} /\ ev'.state # "none"

\* C31: once a step has reported Done, is_terminated returns true, and a
\* further step (of step or of await_output) reports Done again, changes
\* neither memory, pointer, relative base nor input queue, and produces no
\* output.
C31_DoneAbsorbing ==
    [][ReportedDone =>
          /\ ThenIsTerminated => ev'.ret = Some(TRUE)
          /\ ThenSteps =>
                /\ ev'.state = "Done"
                /\ prog'.memory = prog.memory
                /\ prog'.instruction_pointer = prog.instruction_pointer
                /\ prog'.relative_base = prog.relative_base
                /\ prog'.input_buffer = prog.input_buffer
                /\ outputs' = outputs]_vars

----------------------------------------------------------------------------
(* C32 *)
(* Two ways of driving one program with the same inputs queued before the   *)
(* first step: `program.run(inputs, on_output)`, and then, on a second       *)
(* Program built from the same code with read_input called for every input,  *)
(* await_output called again and again until it returns None.  `alone`       *)
(* holds the code and what run left; `driven` holds the steps the instance   *)
(* in hand has made: the pointer each was made at and the State it reported. *)

\* `let mut program = Program::from_str(code);`
TwoDriversInit ==
    /\ prog \in {from_str(w) : w \in Programs}
    /\ pc = "idle"
    /\ last_output = None
    /\ outputs = << >>
    /\ ev = Event("from_str", TRUE, "none", None)
    /\ call_outputs = 0
    /\ appended = << >>
    /\ consumed = << >>
    /\ overflow_checks \in BOOLEAN
    /\ heap = << >>
    /\ vm = << >>
    /\ driven = << >>
    /\ alone = [code |-> prog.memory, run |-> None]
    /\ feedback = << >>

\* One call of step, written down with the pointer it was made at
Traced(r, since) ==
    /\ Effect(r, since)
    /\ driven' = Append(driven, [at |-> prog.instruction_pointer, state |-> r.state])
    /\ UNCHANGED <<heap, vm, alone, feedback>>

TracedRunStepped(r) ==
    /\ Traced(r, call_outputs)
    /\ RunLoop(r, r.state # "Panic" /\ ~run_continues(r.state))

\* one round of run's loop
TracedRunStep ==
    /\ pc = "run"
    /\ TracedRunStepped(step(prog, overflow_checks))

\* What the driver keeps of the Program that run has left
Left ==
    [self |-> prog, outs |-> outputs, steps |-> driven, ret |-> ev.ret,
     inputs |-> appended]

\* run has returned: the second Program is built from the same code and
\* the same inputs are queued on it, one read_input each
SecondProgram ==
    /\ pc = "idle"
    /\ ev.op = "run"
    /\ ev.returned
    /\ alone.run = None
    /\ alone' = [alone EXCEPT !.run = Some(Left)]
    /\ prog' = read_inputs(from_str(alone.code), appended)
    /\ outputs' = << >>
    /\ driven' = << >>
    /\ consumed' = << >>
    /\ call_outputs' = 0
    /\ ev' = Event("read_input", TRUE, "none", None)
    /\ UNCHANGED <<pc, last_output, appended, overflow_checks, heap, vm, feedback>>

\* The last await_output returned None
AwaitedNone == ev.op = "await_output" /\ ev.returned /\ ev.ret = None

\* await_output is called on the second Program, unless the last call
\* returned None
AwaitAgain ==
    /\ alone.run # None
    /\ ~AwaitedNone
    /\ AwaitCall

TracedAwaitStepped(r, last) ==
    /\ Traced(r, call_outputs)
    /\ AwaitLoop(r, last, r.state # "Panic" /\ ~await_continues(r.state, last))

\* one round of await_output's loop
TracedAwaitStep ==
    /\ pc = "await_output"
    /\ TracedAwaitStepped(step(prog, overflow_checks),
                          await_closure(last_output, step(prog, overflow_checks).out))

TwoDriversNext ==
    \/ \E inputs \in InputLists : RunFresh(inputs)
    \/ TracedRunStep
    \/ SecondProgram
    \/ AwaitAgain
    \/ TracedAwaitStep

TwoDriversSpec == TwoDriversInit /\ [][TwoDriversNext]_vars

\* The second Program is in hand: run has returned on the first
RunHalted == alone.run # None

\* C32: when run halts on a program with its inputs queued, await_output
\* called until it returns None does not panic on the same program and
\* inputs, and once it has returned None it has made the same steps, passed
\* on the same outputs and left the same memory, pointer and relative base
\* as run.
C32_AwaitOutputsAsRun ==
    /\ RunHalted => pc # "panicked"
    /\ (RunHalted /\ AwaitedNone) =>
          /\ driven = alone.run[1].steps
          /\ outputs = alone.run[1].outs
          /\ prog.memory = alone.run[1].self.memory
          /\ prog.instruction_pointer = alone.run[1].self.instruction_pointer
          /\ prog.relative_base = alone.run[1].self.relative_base

\* Both drivers have echoed two inputs in order and halted, the second by
\* three calls of await_output
C32_Witness ==
    /\ RunHalted
    /\ AwaitedNone
    /\ alone.code = <<3, 9, 3, 10, 4, 9, 4, 10, 99, 0, 0>>
    /\ appended = <<8, 0>>
    /\ outputs = <<8, 0>>
    /\ alone.run[1].outs = <<8, 0>>
    /\ Len(driven) = 5

\* Both drivers have jumped over an output
C32_WitnessJump ==
    /\ RunHalted
    /\ AwaitedNone
    /\ alone.code = <<1105, 1, 5, 104, 1, 104, 2, 99>>
    /\ outputs = <<2>>
    /\ [i \in 1..Len(driven) |-> driven[i].at] = <<0, 5, 7>>

----------------------------------------------------------------------------
(* C33 *)
(* One program, one sequence of input values, supplied in two ways: queued   *)
(* by run before the first step, and then, on a second Program built from    *)
(* the same code, appended by read_input one value at a time between calls   *)
(* of step, at any moments the driver likes.                                 *)

\* run(inputs, on_output) on the first Program
RunFirst(inputs) ==
    /\ alone.run = None
    /\ RunFresh(inputs)

\* run has returned: the second Program is built from the same code, with
\* nothing queued
SecondProgramUnfed ==
    /\ pc = "idle"
    /\ ev.op = "run"
    /\ ev.returned
    /\ alone.run = None
    /\ alone' = [alone EXCEPT !.run = Some(Left)]
    /\ prog' = from_str(alone.code)
    /\ outputs' = << >>
    /\ driven' = << >>
    /\ consumed' = << >>
    /\ appended' = << >>
    /\ call_outputs' = 0
    /\ ev' = Event("from_str", TRUE, "none", None)
    /\ UNCHANGED <<pc, last_output, overflow_checks, heap, vm, feedback>>

\* read_input of the next value of the sequence, between two calls of step
ReadNextInput ==
    /\ alone.run # None
    /\ Len(appended) < Len(alone.run[1].inputs)
    /\ ReadInput(alone.run[1].inputs[Len(appended) + 1])

\* The last step the Program in hand has made reported Done
Halted == driven # << >> /\ driven[Len(driven)].state = "Done"

TracedStepReturns(r) ==
    /\ Traced(r, 0)
    /\ pc' = IF r.state = "Panic" THEN "panicked" ELSE "idle"
    /\ ev' = Event("step", r.state # "Panic", r.state, None)
    /\ UNCHANGED last_output

\* step on the second Program, until it has reported Done
TracedStep ==
    /\ pc = "idle"
    /\ alone.run # None
    /\ ~Halted
    /\ TracedStepReturns(step(prog, overflow_checks))

InputTimingNext ==
    \/ \E inputs \in InputLists : RunFirst(inputs)
    \/ TracedRunStep
    \/ SecondProgramUnfed
    \/ ReadNextInput
    \/ TracedStep

InputTimingSpec == TwoDriversInit /\ [][InputTimingNext]_vars

\* The sequence s begins with the sequence t
BeginsWith(s, t) == Len(t) <= Len(s) /\ \A i \in 1..Len(t) : s[i] = t[i]

\* The pointers at which the steps of `steps` were made
Pointers(steps) == [i \in 1..Len(steps) |-> steps[i].at]

\* The step that panicked was at an Input instruction, with nothing queued
StarvedInput ==
    /\ KindAt(prog) = "Input"
    /\ prog.input_buffer = << >>

\* C33: a Program fed its inputs one by one between steps goes through the
\* steps of the Program that had the same inputs queued before its first
\* step and passes on the same outputs, as long as no Input instruction is
\* executed before its value is appended (the only step that fails); when it
\* has halted and all the values are appended, memory, pointer, relative
\* base, input queue, return code and outputs are those of the other Program.
C33_InputTimingIrrelevant ==
    RunHalted =>
        /\ BeginsWith(Pointers(alone.run[1].steps), Pointers(driven))
        /\ BeginsWith(alone.run[1].outs, outputs)
        /\ BeginsWith(alone.run[1].inputs, appended)
        /\ pc = "panicked" => StarvedInput
        /\ pc # "panicked" => BeginsWith(alone.run[1].steps, driven)
        /\ (Halted /\ appended = alone.run[1].inputs) =>
              /\ prog = alone.run[1].self
              /\ outputs = alone.run[1].outs
              /\ driven = alone.run[1].steps

\* The second value was appended after the first had been consumed, and both
\* Programs have echoed the two values and halted in the same state
C33_Witness ==
    /\ RunHalted
    /\ Halted
    /\ alone.code = <<3, 9, 3, 10, 4, 9, 4, 10, 99, 0, 0>>
    /\ alone.run[1].inputs = <<8, 0>>
    /\ appended = <<8, 0>>
    /\ ev.op = "step"
    /\ outputs = <<8, 0>>
    /\ prog = alone.run[1].self

\* The second value is appended after the first step has consumed the first
C33_WitnessBetween ==
    /\ RunHalted
    /\ ev.op = "read_input"
    /\ Len(driven) = 1
    /\ consumed = <<8>>
    /\ appended = <<8, 0>>
    /\ prog.input_buffer = <<0>>

\* A value was appended after the Program had halted and stays queued, as in
\* the Program that had it queued from the start
C33_WitnessLeftOver ==
    /\ RunHalted
    /\ Halted
    /\ ev.op = "read_input"
    /\ appended = alone.run[1].inputs
    /\ prog.input_buffer = <<0>>
    /\ prog = alone.run[1].self

----------------------------------------------------------------------------
(* C34 *)

\* Weak fairness of the rounds of await_output's loop, written out: a round
\* is enabled exactly while pc = "await_output" (step is a total function of
\* the Program, and the round it makes leaves the loop, fails, or moves on in
\* the program), so WF_vars(FeedbackAwaitStep) is this formula
AwaitStepTaken ==
    \/ []<><<FeedbackAwaitStep>>_vars
    \/ []<>(pc # "await_output")

\* amp_stack_feeback is one sequential function on one thread: the statement
\* it is at is executed
FeedbackFairSpec ==
    /\ FeedbackSpec
    /\ WF_vars(FeedbackSeed)
    /\ WF_vars(FeedbackFeed)
    /\ AwaitStepTaken

\* The places in the log of the outputs of amps[i]
OutputsOf(i) == { k \in 1..Len(driven) : driven[k].on = i }

\* The value amps[i] has output last
LastOutputOf(i) ==
    driven[CHOOSE k \in OutputsOf(i) : \A j \in OutputsOf(i) : j <= k].out

\* No step fails; no amplifier outputs more than five values; the function
\* returns only from the await_output on amps[0] that ended on Done without
\* an output, when each of the five amplifiers has output five values, and it
\* returns the last value amps[4] has output
FeedbackReturnsFifth ==
    /\ pc # "panicked"
    /\ pc # "seed" => \A i \in 0..4 : Cardinality(OutputsOf(i)) <= 5
    /\ pc = "returned" <=> feedback.returned # None
    /\ pc = "returned" =>
          /\ \A i \in 0..4 : Cardinality(OutputsOf(i)) = 5
          /\ feedback.i = 0
          /\ ev.op = "await_output"
          /\ ev.state = "Done"
          /\ ev.ret = None
          /\ feedback.returned = Some(LastOutputOf(4))
    /\ (pc = "feed" /\ feedback.i # 0) => Len(driven) % 5 = feedback.i

\* C34: on the program of amp_stack_1_feedback, for every phase permutation,
\* amp_stack_feeback returns: no await_output fails, each of the five
\* amplifiers outputs exactly five values, and the function returns at the
\* first await_output that reports no output, with the last value the fifth
\* amplifier has output.
C34_FeedbackTerminates ==
    /\ []FeedbackReturnsFifth
    /\ <>(pc = "returned")

\* amp_stack_feeback has returned after twenty-five outputs, five of each
\* amplifier, with the last output of amps[4]
C34_Witness ==
    /\ pc = "returned"
    /\ Len(driven) = 25
    /\ \A i \in 0..4 : Cardinality(OutputsOf(i)) = 5
    /\ driven[25].on = 4
    /\ feedback.returned = Some(driven[25].out)
    /\ feedback.perm = <<4, 3, 2, 1, 0>>

----------------------------------------------------------------------------
(* C35 *)

\* The return code an instance holds once it has passed `outs` to on_output,
\* its source's outputs up to the clone included
LastOutput(outs) == IF outs = << >> THEN None ELSE Some(outs[Len(outs)])

\* C35: in every state, the return_code of every instance is the value of the
\* Output instruction it (or, before the clone, its source) executed last,
\* and None exactly when it has executed none.
C35_ReturnCodeIsLastOutput ==
    \A i \in DOMAIN vm : vm[i].return_code = LastOutput(driven[i].outs)

\* The clone was made after its source had output 8 and holds that return code
C35_Witness ==
    /\ ev.op = "clone"
    /\ driven["program2"].outs = <<8>>
    /\ vm["program2"].return_code = Some(8)

\* The clone has output a second, different value since; its source has not
C35_WitnessDiverged ==
    /\ DOMAIN vm = Instances
    /\ vm["program"].return_code = Some(8)
    /\ vm["program2"].return_code = Some(0)
    /\ driven["program2"].outs = <<8, 0>>

\* An instance has stepped, consumed an input and holds no return code
C35_WitnessNone ==
    /\ DOMAIN vm = Instances
    /\ ev.op = "step"
    /\ ev.state = "Running"
    /\ vm[ev.on].return_code = None
    /\ deref(heap, vm[ev.on]).instruction_pointer > 0

====
